---- MODULE Spec2Model ----
(***************************************************************************)
(* State-machine model of the hastra-sol-vault-stake program               *)
(* (programs/hastra-sol-vault-stake/src).  One action per instruction      *)
(* handler of processor.rs, preceded by the account validation that the    *)
(* #[derive(Accounts)] structs of account_structs.rs run before the        *)
(* handler body.  A transaction is atomic: a call that returns an error    *)
(* changes no account, so a failing call only records its outcome in       *)
(* `last`.  The SPL token program is modelled by the preconditions of the  *)
(* primitives the handlers call (transfer, mint_to, burn, freeze, thaw).   *)
(***************************************************************************)
EXTENDS Integers, Sequences, FiniteSets, TLC

(* ------------------------------ bounds --------------------------------- *)
\* the clock runs from 0 to MaxTime
MaxTime == 2
\* largest amount a caller passes to deposit, unbond or claim_rewards
MaxAmount == 2
\* longest Merkle proof submitted
MaxLen == 2

(* ------------------------- program constants --------------------------- *)
MAX_UNBONDING_PERIOD == 31536000
MIN_UNBONDING_PERIOD == 1
MAX_ADMINISTRATORS == 5

(* ------------------------------ universe ------------------------------- *)
\* token holders
Users == {"alice", "bob"}
\* every signer: the token holders and the deployer
Keys == Users \cup {"root"}
\* Option::None of an authority
None == "none"
\* program-derived addresses (seeds "vault_authority", "mint_authority",
\* "freeze_authority")
VaultAuthority == "vault_authority"
MintAuthority == "mint_authority"
FreezeAuthority == "freeze_authority"
\* the two mints of a deployment: the reference token and the stake token
VaultMint == "wYLDS"
StakeMint == "sYLDS"
Mints == {VaultMint, StakeMint}

\* reference tokens each holder owns when the program is deployed
InitialReference == [u \in Users |-> IF u = "alice" THEN 2 ELSE 1]

Min(a, b) == IF a <= b THEN a ELSE b

VARIABLES
    programData,   \* upgrade_authority_address of the ProgramData account
    config,        \* the Config account (seeds "config")
    vaultOwner,    \* owner of the vault token account (None: not yet chosen)
    refBal,        \* amount of each user's reference-token account
    vaultBal,      \* amount of the vault token account
    stakeBal,      \* amount of each user's stake-token account
    stakeSupply,   \* supply of the stake mint (minted minus burned)
    frozen,        \* users whose stake-token account is frozen
    tickets,       \* the live UnbondingTicket accounts
    epochs,        \* the RewardsEpoch accounts
    claimRecords,  \* the ClaimRecord accounts, <<epoch index, user>>
    claimLog,      \* history: amounts minted per <<epoch index, user>>
    now,           \* Clock::get()?.unix_timestamp
    last,          \* outcome of the latest call
    roundTrip      \* observer of deposit, unbond, redeem sequences per user

vars == <<programData, config, vaultOwner, refBal, vaultBal, stakeBal,
          stakeSupply, frozen, tickets, epochs, claimRecords, claimLog,
          now, last, roundTrip>>

\* the Config account before `initialize` has created it
NoConfig ==
    [initialized |-> FALSE, vault |-> None, mint |-> None,
     unbonding_period |-> 0, freeze_administrators |-> <<>>,
     rewards_administrators |-> <<>>, paused |-> FALSE]

\* Vec::contains
Contains(list, k) == \E i \in 1..Len(list) : list[i] = k

\* record of a call: instruction, signer, result, the amount of the event it
\* emitted, the requested_amount of the ticket a redeem consumed, and the
\* old and new period of an UnbondingPeriodUpdated event
Call(op, signer, err, amount) ==
    [op |-> op, signer |-> signer, err |-> err, amount |-> amount,
     requested |-> 0, old_period |-> 0, new_period |-> 0]

\* the observer is not following a sequence of the user
NotObserving == [phase |-> "idle", n |-> 0, ref0 |-> 0, stake0 |-> 0]

Init ==
    /\ programData = "root"
    /\ config = NoConfig
    /\ vaultOwner = None
    /\ refBal = InitialReference
    /\ vaultBal = 0
    /\ stakeBal = [u \in Users |-> 0]
    /\ stakeSupply = 0
    /\ frozen = {}
    /\ tickets = {}
    /\ epochs = {}
    /\ claimRecords = {}
    /\ claimLog = [k \in {} |-> <<>>]
    /\ now = 0
    /\ last = Call("deploy", None, "Ok", 0)
    /\ roundTrip = [u \in Users |-> NotObserving]

\* mutant: with no authority recorded the guard lets every signer through
validate_program_update_authority_none(authority) ==
    IF programData # None /\ authority # programData
    THEN "InvalidUpgradeAuthority" ELSE "Ok"

\* mutant: the guard accepts every signer while an authority is recorded
validate_program_update_authority_any(authority) ==
    IF programData = None THEN "NoUpgradeAuthority" ELSE "Ok"

(* --------------------------- authority guard --------------------------- *)
validate_program_update_authority(authority) ==
    IF programData = None THEN "NoUpgradeAuthority"
    ELSE IF authority # programData THEN "InvalidUpgradeAuthority"
    ELSE "Ok"

(* --------------------------- token program ----------------------------- *)
\* spl_token transfer of `amount` out of an account holding `balance`
TokenTransferErr(balance, amount, srcFrozen, dstFrozen) ==
    IF srcFrozen \/ dstFrozen THEN "AccountFrozen"
    ELSE IF balance < amount THEN "InsufficientFunds"
    ELSE "Ok"

\* spl_token mint_to into an account
TokenMintToErr(dstFrozen) ==
    IF dstFrozen THEN "AccountFrozen" ELSE "Ok"

\* spl_token burn of `amount` from an account holding `balance`
TokenBurnErr(balance, amount, srcFrozen) ==
    IF srcFrozen THEN "AccountFrozen"
    ELSE IF balance < amount THEN "InsufficientFunds"
    ELSE "Ok"

(* ------------------------- vault configuration ------------------------- *)
\* mutant: the upper bound of the unbonding period is not checked
PeriodInRange_nomax(p) == p >= MIN_UNBONDING_PERIOD

\* require!(.. >= MIN_UNBONDING_PERIOD ..); require!(.. <= MAX_UNBONDING_PERIOD ..)
PeriodInRange(p) == p >= MIN_UNBONDING_PERIOD /\ p <= MAX_UNBONDING_PERIOD

\* require!(list.len() <= MAX_ADMINISTRATORS, ..)
AdminListFits(list) == Len(list) <= MAX_ADMINISTRATORS

\* mutant: the configuration account is created without checking that it is new
ConfigInitErr_absent == "Ok"

\* Initialize.config is `init`: creating the account fails when it exists
ConfigInitErr == IF config.initialized THEN "AccountAlreadyInUse" ELSE "Ok"

\* Account<Config> of every other instruction: the account must exist
ConfigLoadErr == IF config.initialized THEN "Ok" ELSE "AccountNotInitialized"

\* The caller passes as vault_token_account a token account of the reference
\* mint that it owns or that the vault authority owns, so the two constraints
\* of Initialize.vault_token_account hold; set_authority then hands it over.
initializeErr(signer, vault_mint, stake_mint, unbonding_period, freeze_administrators, rewards_administrators) ==
    IF ConfigInitErr # "Ok" THEN ConfigInitErr
    ELSE IF validate_program_update_authority(signer) # "Ok"
        THEN validate_program_update_authority(signer)
    ELSE IF ~AdminListFits(freeze_administrators) THEN "TooManyAdministrators"
    ELSE IF ~AdminListFits(rewards_administrators) THEN "TooManyAdministrators"
    ELSE IF ~PeriodInRange(unbonding_period) THEN "InvalidBondingPeriod"
    ELSE IF vault_mint = stake_mint THEN "VaultAndMintCannotBeSame"
    ELSE "Ok"

initialize(signer, vault_mint, stake_mint, unbonding_period, freeze_administrators, rewards_administrators) ==
    LET err == initializeErr(signer, vault_mint, stake_mint, unbonding_period,
                             freeze_administrators, rewards_administrators)
    IN  /\ last' = Call("initialize", signer, err, 0)
        /\ IF err = "Ok"
           THEN /\ config' = [initialized |-> TRUE,
                              vault |-> vault_mint,
                              mint |-> stake_mint,
                              unbonding_period |-> unbonding_period,
                              freeze_administrators |-> freeze_administrators,
                              rewards_administrators |-> rewards_administrators,
                              paused |-> FALSE]
                /\ vaultOwner' = VaultAuthority
           ELSE UNCHANGED <<config, vaultOwner>>
        /\ UNCHANGED <<programData, refBal, vaultBal, stakeBal, stakeSupply,
                       frozen, tickets, epochs, claimRecords, claimLog, now>>

pauseErr(signer) ==
    IF ConfigLoadErr # "Ok" THEN ConfigLoadErr
    ELSE validate_program_update_authority(signer)

\* mutant: pause flips the flag instead of storing the argument
pause_toggle(signer, flag) ==
    LET err == pauseErr(signer)
    IN  /\ last' = Call("pause", signer, err, 0)
        /\ IF err = "Ok"
           THEN config' = [config EXCEPT !.paused = ~config.paused]
           ELSE UNCHANGED config
        /\ UNCHANGED <<programData, vaultOwner, refBal, vaultBal, stakeBal,
                       stakeSupply, frozen, tickets, epochs, claimRecords,
                       claimLog, now>>

pause(signer, flag) ==
    LET err == pauseErr(signer)
    IN  /\ last' = Call("pause", signer, err, 0)
        /\ IF err = "Ok"
           THEN config' = [config EXCEPT !.paused = flag]
           ELSE UNCHANGED config
        /\ UNCHANGED <<programData, vaultOwner, refBal, vaultBal, stakeBal,
                       stakeSupply, frozen, tickets, epochs, claimRecords,
                       claimLog, now>>

update_configErr(signer, new_unbonding_period) ==
    IF ConfigLoadErr # "Ok" THEN ConfigLoadErr
    ELSE IF validate_program_update_authority(signer) # "Ok"
        THEN validate_program_update_authority(signer)
    ELSE IF ~PeriodInRange(new_unbonding_period) THEN "InvalidBondingPeriod"
    ELSE "Ok"

\* the UnbondingPeriodUpdated event reads config.unbonding_period after the
\* assignment of the new value
update_config(signer, new_unbonding_period) ==
    LET err == update_configErr(signer, new_unbonding_period)
        cfg == [config EXCEPT !.unbonding_period = new_unbonding_period]
    IN  /\ IF err = "Ok"
           THEN /\ config' = cfg
                /\ last' = [Call("update_config", signer, err, 0) EXCEPT
                               !.old_period = cfg.unbonding_period,
                               !.new_period = new_unbonding_period]
           ELSE /\ UNCHANGED config
                /\ last' = Call("update_config", signer, err, 0)
        /\ UNCHANGED <<programData, vaultOwner, refBal, vaultBal, stakeBal,
                       stakeSupply, frozen, tickets, epochs, claimRecords,
                       claimLog, now>>

update_administratorsErr(signer, new_administrators) ==
    IF ConfigLoadErr # "Ok" THEN ConfigLoadErr
    ELSE IF validate_program_update_authority(signer) # "Ok"
        THEN validate_program_update_authority(signer)
    ELSE IF ~AdminListFits(new_administrators) THEN "TooManyAdministrators"
    ELSE "Ok"

\* mutant: the new freeze administrators are added to the present ones
update_freeze_administrators_merge(signer, new_administrators) ==
    LET err == update_administratorsErr(signer, new_administrators)
    IN  /\ last' = Call("update_freeze_administrators", signer, err, 0)
        /\ IF err = "Ok"
           THEN config' = [config EXCEPT
                              !.freeze_administrators = @ \o new_administrators]
           ELSE UNCHANGED config
        /\ UNCHANGED <<programData, vaultOwner, refBal, vaultBal, stakeBal,
                       stakeSupply, frozen, tickets, epochs, claimRecords,
                       claimLog, now>>

update_freeze_administrators(signer, new_administrators) ==
    LET err == update_administratorsErr(signer, new_administrators)
    IN  /\ last' = Call("update_freeze_administrators", signer, err, 0)
        /\ IF err = "Ok"
           THEN config' = [config EXCEPT
                              !.freeze_administrators = new_administrators]
           ELSE UNCHANGED config
        /\ UNCHANGED <<programData, vaultOwner, refBal, vaultBal, stakeBal,
                       stakeSupply, frozen, tickets, epochs, claimRecords,
                       claimLog, now>>

update_rewards_administrators(signer, new_administrators) ==
    LET err == update_administratorsErr(signer, new_administrators)
    IN  /\ last' = Call("update_rewards_administrators", signer, err, 0)
        /\ IF err = "Ok"
           THEN config' = [config EXCEPT
                              !.rewards_administrators = new_administrators]
           ELSE UNCHANGED config
        /\ UNCHANGED <<programData, vaultOwner, refBal, vaultBal, stakeBal,
                       stakeSupply, frozen, tickets, epochs, claimRecords,
                       claimLog, now>>

(* ------------------------ staking state machine ------------------------ *)
\* mutants: a deposit that mints more than it takes into the vault
DepositMintAmount_more(amount) == amount + 1
DepositMintAmount_double(amount) == 2 * amount

\* token::transfer(.., amount) and token::mint_to(.., amount) of deposit
\* mutant: the transfer leg moves one token less than the deposit mints
DepositTransferAmount_less(amount) == amount - 1

DepositTransferAmount(amount) == amount
DepositMintAmount(amount) == amount

depositErr(signer, amount) ==
    IF ConfigLoadErr # "Ok" THEN ConfigLoadErr
    ELSE IF vaultOwner # VaultAuthority THEN "InvalidVaultAuthority"
    ELSE IF ~(amount > 0) THEN "InvalidAmount"
    ELSE IF config.paused THEN "ProtocolPaused"
    ELSE IF TokenTransferErr(refBal[signer], DepositTransferAmount(amount),
                             FALSE, FALSE) # "Ok"
        THEN TokenTransferErr(refBal[signer], DepositTransferAmount(amount),
                              FALSE, FALSE)
    ELSE TokenMintToErr(signer \in frozen)

\* the transfer leg of the deposit has been executed when the call returns
DepositTransferDone(signer, amount) ==
    /\ ConfigLoadErr = "Ok"
    /\ vaultOwner = VaultAuthority
    /\ amount > 0
    /\ ~config.paused
    /\ TokenTransferErr(refBal[signer], DepositTransferAmount(amount),
                        FALSE, FALSE) = "Ok"

\* mutant: a call that returns an error keeps what it had done so far
Committed_partial(err, before, after) == after

\* the value an account has once the call has returned: what the call made
\* of it if it returned Ok, what it was before if it returned an error
Committed(err, before, after) == IF err = "Ok" THEN after ELSE before

deposit(signer, amount) ==
    LET err == depositErr(signer, amount)
    IN  /\ last' = Call("deposit", signer, err, IF err = "Ok" THEN amount ELSE 0)
        /\ LET moved == IF DepositTransferDone(signer, amount)
                        THEN DepositTransferAmount(amount) ELSE 0
               minted == IF err = "Ok" THEN DepositMintAmount(amount) ELSE 0
           IN  /\ refBal' = Committed(err, refBal,
                                [refBal EXCEPT ![signer] = @ - moved])
               /\ vaultBal' = Committed(err, vaultBal, vaultBal + moved)
               /\ stakeBal' = Committed(err, stakeBal,
                                [stakeBal EXCEPT ![signer] = @ + minted])
               /\ stakeSupply' = Committed(err, stakeSupply,
                                           stakeSupply + minted)
        /\ UNCHANGED <<programData, config, vaultOwner, frozen, tickets,
                       epochs, claimRecords, claimLog, now>>

\* the ticket account at the address derived from seeds ["ticket", key]
TicketAt(key) == {t \in tickets : t.addr = key}

\* mutant: the ticket account is created without checking that it is new
TicketInitErr_absent(signer) == "Ok"

\* Unbond.ticket is `init`: creating the account fails when it exists
TicketInitErr(signer) ==
    IF TicketAt(signer) # {} THEN "AccountAlreadyInUse" ELSE "Ok"

\* mutant: unbond does not look at the pause flag
unbondErr_unpaused(signer, amount) ==
    IF ConfigLoadErr # "Ok" THEN ConfigLoadErr
    ELSE IF TicketInitErr(signer) # "Ok" THEN TicketInitErr(signer)
    ELSE IF ~(amount > 0) THEN "InvalidAmount"
    ELSE IF ~(amount <= stakeBal[signer]) THEN "InsufficientUnbondingBalance"
    ELSE "Ok"

unbondErr(signer, amount) ==
    IF ConfigLoadErr # "Ok" THEN ConfigLoadErr
    ELSE IF TicketInitErr(signer) # "Ok" THEN TicketInitErr(signer)
    ELSE IF ~(amount > 0) THEN "InvalidAmount"
    ELSE IF config.paused THEN "ProtocolPaused"
    ELSE IF ~(amount <= stakeBal[signer]) THEN "InsufficientUnbondingBalance"
    ELSE "Ok"

\* mutant: the balance snapshot records the requested amount
NewTicket_requested(signer, amount) ==
    [addr |-> signer,
     owner |-> signer,
     requested_amount |-> amount,
     start_balance |-> amount,
     start_ts |-> now]

\* the ticket written by unbond: owner, requested amount, the signer's stake
\* balance as read by the handler, and the clock's timestamp
NewTicket(signer, amount) ==
    [addr |-> signer,
     owner |-> signer,
     requested_amount |-> amount,
     start_balance |-> stakeBal[signer],
     start_ts |-> now]

\* mutant: unbond burns the requested stake tokens when the ticket is created
unbond_burns(signer, amount) ==
    LET err == unbondErr(signer, amount)
    IN  /\ last' = Call("unbond", signer, err, IF err = "Ok" THEN amount ELSE 0)
        /\ IF err = "Ok"
           THEN /\ tickets' = tickets \cup {NewTicket(signer, amount)}
                /\ stakeBal' = [stakeBal EXCEPT ![signer] = @ - amount]
                /\ stakeSupply' = stakeSupply - amount
           ELSE UNCHANGED <<tickets, stakeBal, stakeSupply>>
        /\ UNCHANGED <<programData, config, vaultOwner, refBal, vaultBal,
                       frozen, epochs, claimRecords, claimLog, now>>

unbond(signer, amount) ==
    LET err == unbondErr(signer, amount)
    IN  /\ last' = Call("unbond", signer, err, IF err = "Ok" THEN amount ELSE 0)
        /\ IF err = "Ok"
           THEN tickets' = tickets \cup {NewTicket(signer, amount)}
           ELSE UNCHANGED tickets
        /\ UNCHANGED <<programData, config, vaultOwner, refBal, vaultBal,
                       stakeBal, stakeSupply, frozen, epochs, claimRecords,
                       claimLog, now>>

\* mutant: the time-lock uses the shortest period, not the configured one
UnbondingElapsed_shortest(ticket) ==
    now - ticket.start_ts >= MIN_UNBONDING_PERIOD

\* mutant: strict comparison in the time-lock
UnbondingElapsed_strict(ticket) ==
    now - ticket.start_ts > config.unbonding_period

\* now - ticket.start_ts >= config.unbonding_period
UnbondingElapsed(ticket) == now - ticket.start_ts >= config.unbonding_period

\* mutant: max in place of min
RedeemAmount_max(ticket, current_mint_amount) ==
    IF ticket.requested_amount >= current_mint_amount
    THEN ticket.requested_amount ELSE current_mint_amount

\* ticket.requested_amount.min(current_mint_amount)
RedeemAmount(ticket, current_mint_amount) ==
    Min(ticket.requested_amount, current_mint_amount)

\* mutant: redeem pays out one token less than it burns
RedeemTransferAmount_less(redeem) == redeem - 1

\* token::burn(.., redeem) and token::transfer(.., redeem) of redeem
RedeemBurnAmount(redeem) == redeem
RedeemTransferAmount(redeem) == redeem

\* mutant: the ticket's address is not tied to the signer by seeds
TicketLoadErr_noseeds(signer, ticketAddr) ==
    IF TicketAt(ticketAddr) = {} THEN "AccountNotInitialized" ELSE "Ok"

\* Redeem.ticket: the account must exist and sit at the signer's address
TicketLoadErr(signer, ticketAddr) ==
    IF TicketAt(ticketAddr) = {} THEN "AccountNotInitialized"
    ELSE IF ticketAddr # signer THEN "ConstraintSeeds"
    ELSE "Ok"

\* mutant: redeem does not compare the vault's balance with the redeem amount
redeemBodyErr_novault(signer, ticket) ==
    LET redeem == RedeemAmount(ticket, stakeBal[signer])
    IN  IF config.paused THEN "ProtocolPaused"
        ELSE IF ticket.owner # signer THEN "InvalidTicketOwner"
        ELSE IF ~UnbondingElapsed(ticket) THEN "UnbondingPeriodNotElapsed"
        ELSE IF ~(redeem > 0) THEN "InsufficientUnbondingBalance"
        ELSE IF TokenBurnErr(stakeBal[signer], RedeemBurnAmount(redeem),
                             signer \in frozen) # "Ok"
            THEN TokenBurnErr(stakeBal[signer], RedeemBurnAmount(redeem),
                              signer \in frozen)
        ELSE TokenTransferErr(vaultBal, RedeemTransferAmount(redeem),
                              FALSE, FALSE)

\* mutant: redeem does not require a positive redeem amount
redeemBodyErr_zero(signer, ticket) ==
    LET redeem == RedeemAmount(ticket, stakeBal[signer])
    IN  IF config.paused THEN "ProtocolPaused"
        ELSE IF ticket.owner # signer THEN "InvalidTicketOwner"
        ELSE IF ~UnbondingElapsed(ticket) THEN "UnbondingPeriodNotElapsed"
        ELSE IF ~(vaultBal >= redeem) THEN "InsufficientVaultBalance"
        ELSE IF TokenBurnErr(stakeBal[signer], RedeemBurnAmount(redeem),
                             signer \in frozen) # "Ok"
            THEN TokenBurnErr(stakeBal[signer], RedeemBurnAmount(redeem),
                              signer \in frozen)
        ELSE TokenTransferErr(vaultBal, RedeemTransferAmount(redeem),
                              FALSE, FALSE)

\* the handler body of redeem, for the ticket the accounts resolved to
redeemBodyErr(signer, ticket) ==
    LET redeem == RedeemAmount(ticket, stakeBal[signer])
    IN  IF config.paused THEN "ProtocolPaused"
        ELSE IF ticket.owner # signer THEN "InvalidTicketOwner"
        ELSE IF ~UnbondingElapsed(ticket) THEN "UnbondingPeriodNotElapsed"
        ELSE IF ~(redeem > 0) THEN "InsufficientUnbondingBalance"
        ELSE IF ~(vaultBal >= redeem) THEN "InsufficientVaultBalance"
        ELSE IF TokenBurnErr(stakeBal[signer], RedeemBurnAmount(redeem),
                             signer \in frozen) # "Ok"
            THEN TokenBurnErr(stakeBal[signer], RedeemBurnAmount(redeem),
                              signer \in frozen)
        ELSE TokenTransferErr(vaultBal, RedeemTransferAmount(redeem),
                              FALSE, FALSE)

redeemErr(signer, ticketAddr) ==
    IF ConfigLoadErr # "Ok" THEN ConfigLoadErr
    ELSE IF TicketLoadErr(signer, ticketAddr) # "Ok"
        THEN TicketLoadErr(signer, ticketAddr)
    ELSE IF vaultOwner # VaultAuthority THEN "InvalidVaultAuthority"
    ELSE redeemBodyErr(signer, CHOOSE t \in TicketAt(ticketAddr) : TRUE)

\* mutant: a redeem that paid less than requested keeps the ticket open
CloseTicket_partial(ticket, redeem) ==
    IF redeem < ticket.requested_amount THEN tickets ELSE tickets \ {ticket}

\* Redeem.ticket `close = signer`: the ticket accounts left once a redeem of
\* `redeem` tokens has returned Ok
CloseTicket(ticket, redeem) == tickets \ {ticket}

\* `close = signer` removes the ticket account when the handler returns Ok
redeem(signer, ticketAddr) ==
    LET err == redeemErr(signer, ticketAddr)
    IN  IF err = "Ok"
        THEN LET ticket == CHOOSE t \in TicketAt(ticketAddr) : TRUE
                 amt == RedeemAmount(ticket, stakeBal[signer])
             IN  /\ last' = [Call("redeem", signer, err, amt) EXCEPT
                                !.requested = ticket.requested_amount]
                 /\ stakeBal' = [stakeBal EXCEPT
                                  ![signer] = @ - RedeemBurnAmount(amt)]
                 /\ stakeSupply' = stakeSupply - RedeemBurnAmount(amt)
                 /\ vaultBal' = vaultBal - RedeemTransferAmount(amt)
                 /\ refBal' = [refBal EXCEPT
                                ![signer] = @ + RedeemTransferAmount(amt)]
                 /\ tickets' = CloseTicket(ticket, amt)
                 /\ UNCHANGED <<programData, config, vaultOwner, frozen,
                                epochs, claimRecords, claimLog, now>>
        ELSE /\ last' = Call("redeem", signer, err, 0)
             /\ UNCHANGED <<programData, config, vaultOwner, refBal, vaultBal,
                            stakeBal, stakeSupply, frozen, tickets, epochs,
                            claimRecords, claimLog, now>>

(* ---------------------------- freeze control --------------------------- *)
\* freeze authority of each mint: the program's PDA holds it for the stake
\* mint only; the reference token belongs to its own issuer
MintFreezeAuthority(mint) ==
    IF mint = StakeMint THEN FreezeAuthority ELSE "issuer"

\* mutant: the membership check is dropped
IsFreezeAdministrator_any(signer) == TRUE

\* config.freeze_administrators.contains(&signer)
IsFreezeAdministrator(signer) == Contains(config.freeze_administrators, signer)

\* spl_token freeze_account / thaw_account: the account must not already be
\* in the requested state
TokenFreezeErr(isFrozen) == IF isFrozen THEN "InvalidState" ELSE "Ok"
TokenThawErr(isFrozen) == IF isFrozen THEN "Ok" ELSE "InvalidState"

freeze_token_accountErr(signer, mint, target) ==
    IF ConfigLoadErr # "Ok" THEN ConfigLoadErr
    ELSE IF MintFreezeAuthority(mint) # FreezeAuthority
        THEN "InvalidFreezeAuthority"
    ELSE IF ~IsFreezeAdministrator(signer)
        THEN "UnauthorizedFreezeAdministrator"
    ELSE TokenFreezeErr(target \in frozen)

freeze_token_account(signer, mint, target) ==
    LET err == freeze_token_accountErr(signer, mint, target)
    IN  /\ last' = Call("freeze_token_account", signer, err, 0)
        /\ IF err = "Ok"
           THEN frozen' = frozen \cup {target}
           ELSE UNCHANGED frozen
        /\ UNCHANGED <<programData, config, vaultOwner, refBal, vaultBal,
                       stakeBal, stakeSupply, tickets, epochs, claimRecords,
                       claimLog, now>>

thaw_token_accountErr(signer, mint, target) ==
    IF ConfigLoadErr # "Ok" THEN ConfigLoadErr
    ELSE IF MintFreezeAuthority(mint) # FreezeAuthority
        THEN "InvalidFreezeAuthority"
    ELSE IF ~IsFreezeAdministrator(signer)
        THEN "UnauthorizedFreezeAdministrator"
    ELSE TokenThawErr(target \in frozen)

thaw_token_account(signer, mint, target) ==
    LET err == thaw_token_accountErr(signer, mint, target)
    IN  /\ last' = Call("thaw_token_account", signer, err, 0)
        /\ IF err = "Ok"
           THEN frozen' = frozen \ {target}
           ELSE UNCHANGED frozen
        /\ UNCHANGED <<programData, config, vaultOwner, refBal, vaultBal,
                       stakeBal, stakeSupply, tickets, epochs, claimRecords,
                       claimLog, now>>

(* -------------------- reward epochs and proof verifier ----------------- *)
\* Byte strings are sequences of chunks; a chunk is a 32-byte value (a key or
\* a hash) or a single byte.  sha256 is collision-free: a hash is the chunk
\* that records its input.
Key32(k) == [tag |-> k, n |-> 0, kids |-> <<>>]
U8(b) == [tag |-> "u8", n |-> b, kids |-> <<>>]
Zero32 == [tag |-> "zero32", n |-> 0, kids |-> <<>>]

\* u64::to_le_bytes: the `width` low-order bytes of x, least significant first
RECURSIVE LeBytes(_, _)
LeBytes(x, width) ==
    IF width = 0 THEN <<>>
    ELSE <<U8(x % 256)>> \o LeBytes(x \div 256, width - 1)

to_le_bytes(x) == LeBytes(x, 8)

RECURSIVE Concat(_)
Concat(slices) ==
    IF slices = <<>> THEN <<>> ELSE Head(slices) \o Concat(Tail(slices))

\* hashv(&[..]).to_bytes(): the hash of the concatenated slices
hashv(slices) == [tag |-> "sha256", n |-> 0, kids |-> Concat(slices)]

\* leaf = sha256(user || amount_le || epoch_index_le)
Leaf(user, amount, index) ==
    hashv(<< <<Key32(user)>> \o to_le_bytes(amount) \o to_le_bytes(index) >>)

\* mutant: an all-zero sibling is hashed like any other sibling
FoldStep_flag(node, step) ==
    IF step.is_left THEN hashv(<< <<step.sibling>>, <<node>> >>)
    ELSE hashv(<< <<node>>, <<step.sibling>> >>)

\* mutant: every step is folded as if it had no sibling
FoldStep_alone(node, step) == hashv(<< <<node>> >>)

\* one step of the proof loop
FoldStep(node, step) ==
    IF step.sibling = Zero32 THEN hashv(<< <<node>> >>)
    ELSE IF step.is_left THEN hashv(<< <<step.sibling>>, <<node>> >>)
    ELSE hashv(<< <<node>>, <<step.sibling>> >>)

RECURSIVE Fold(_, _)
Fold(node, proof) ==
    IF proof = <<>> THEN node
    ELSE Fold(FoldStep(node, Head(proof)), Tail(proof))

\* the RewardsEpoch account at the address derived from seeds ["epoch", index]
EpochAt(index) == {e \in epochs : e.index = index}

\* mutant: the epoch account is created without checking that it is new
EpochInitErr_absent(index) == "Ok"

\* CreateRewardsEpoch.epoch is `init`
EpochInitErr(index) ==
    IF EpochAt(index) # {} THEN "AccountAlreadyInUse" ELSE "Ok"

\* config.rewards_administrators.contains(&admin)
IsRewardsAdministrator(admin) == Contains(config.rewards_administrators, admin)

create_rewards_epochErr(admin, index) ==
    IF ConfigLoadErr # "Ok" THEN ConfigLoadErr
    ELSE IF EpochInitErr(index) # "Ok" THEN EpochInitErr(index)
    ELSE IF ~IsRewardsAdministrator(admin) THEN "InvalidRewardsAdministrator"
    ELSE "Ok"

create_rewards_epoch(admin, index, merkle_root, total) ==
    LET err == create_rewards_epochErr(admin, index)
    IN  /\ last' = Call("create_rewards_epoch", admin, err, 0)
        /\ IF err = "Ok"
           THEN epochs' = epochs \cup
                    {[index |-> index, merkle_root |-> merkle_root,
                      total |-> total, created_ts |-> now]}
           ELSE UNCHANGED epochs
        /\ UNCHANGED <<programData, config, vaultOwner, refBal, vaultBal,
                       stakeBal, stakeSupply, frozen, tickets, claimRecords,
                       claimLog, now>>

\* mutant: the claim record is created without checking that it is new
ClaimRecordInitErr_absent(index, user) == "Ok"

\* ClaimRewards.claim_record is `init` at seeds ["claim", epoch, user]
ClaimRecordInitErr(index, user) ==
    IF <<index, user>> \in claimRecords THEN "AccountAlreadyInUse" ELSE "Ok"

\* mutant: the leaf is built for any holder, not for the signer
ProofAccepted_anyone(user, epoch, amount, proof) ==
    \E v \in Users :
        Fold(Leaf(v, amount, epoch.index), proof) = epoch.merkle_root

\* node == ctx.accounts.epoch.merkle_root after the fold
ProofAccepted(user, epoch, amount, proof) ==
    Fold(Leaf(user, amount, epoch.index), proof) = epoch.merkle_root

claim_rewardsErr(user, index, amount, proof) ==
    IF ConfigLoadErr # "Ok" THEN ConfigLoadErr
    ELSE IF EpochAt(index) = {} THEN "AccountNotInitialized"
    ELSE IF ClaimRecordInitErr(index, user) # "Ok"
        THEN ClaimRecordInitErr(index, user)
    ELSE IF config.paused THEN "ProtocolPaused"
    ELSE IF ~(amount > 0) THEN "InvalidAmount"
    ELSE IF ~ProofAccepted(user, CHOOSE e \in EpochAt(index) : TRUE,
                           amount, proof)
        THEN "InvalidMerkleProof"
    ELSE TokenMintToErr(user \in frozen)

\* amounts minted so far for a claim record
Claimed(index, user) ==
    IF <<index, user>> \in DOMAIN claimLog THEN claimLog[<<index, user>>]
    ELSE <<>>

\* mutant: the claim mints twice the proven amount
ClaimMintAmount_double(amount) == 2 * amount

\* token::mint_to(.., amount) of claim_rewards
ClaimMintAmount(amount) == amount

claim_rewards(user, index, amount, proof) ==
    LET err == claim_rewardsErr(user, index, amount, proof)
    IN  /\ last' = Call("claim_rewards", user, err, IF err = "Ok" THEN amount ELSE 0)
        /\ IF err = "Ok"
           THEN /\ claimRecords' = claimRecords \cup {<<index, user>>}
                /\ stakeBal' = [stakeBal EXCEPT
                                 ![user] = @ + ClaimMintAmount(amount)]
                /\ stakeSupply' = stakeSupply + ClaimMintAmount(amount)
                /\ claimLog' =
                       [k \in DOMAIN claimLog \cup {<<index, user>>} |->
                           IF k = <<index, user>>
                           THEN Append(Claimed(index, user),
                                       ClaimMintAmount(amount))
                           ELSE claimLog[k]]
           ELSE UNCHANGED <<claimRecords, stakeBal, stakeSupply, claimLog>>
        /\ UNCHANGED <<programData, config, vaultOwner, refBal, vaultBal,
                       frozen, tickets, epochs, now>>

(* ----------------------------- environment ----------------------------- *)
\* the clock advances
Tick ==
    /\ now < MaxTime
    /\ now' = now + 1
    /\ last' = Call("tick", None, "Ok", 0)
    /\ UNCHANGED <<programData, config, vaultOwner, refBal, vaultBal,
                   stakeBal, stakeSupply, frozen, tickets, epochs,
                   claimRecords, claimLog>>

\* a holder moves stake tokens to another holder with the token program
TransferStake(from, to, amount) ==
    /\ from # to
    /\ amount > 0
    /\ TokenTransferErr(stakeBal[from], amount, from \in frozen,
                        to \in frozen) = "Ok"
    /\ stakeBal' = [stakeBal EXCEPT ![from] = @ - amount, ![to] = @ + amount]
    /\ last' = Call("transfer", from, "Ok", amount)
    /\ UNCHANGED <<programData, config, vaultOwner, refBal, vaultBal,
                   stakeSupply, frozen, tickets, epochs, claimRecords,
                   claimLog, now>>

\* the upgrade authority hands the program over, or renounces it (None);
\* a renounced authority cannot be set again
SetUpgradeAuthority(new) ==
    /\ programData # None
    /\ new # programData
    /\ programData' = new
    /\ last' = Call("set_upgrade_authority", programData, "Ok", 0)
    /\ UNCHANGED <<config, vaultOwner, refBal, vaultBal, stakeBal,
                   stakeSupply, frozen, tickets, epochs, claimRecords,
                   claimLog, now>>

(* ------------------------------ observer ------------------------------- *)
\* Follows, per user, a successful deposit(n) directly followed (among the
\* steps that touch the user's balances or ticket) by a successful unbond(n)
\* and a successful redeem, remembering the balances before the deposit.
ObserveUser(u) ==
    LET mine == last'.err = "Ok" /\ last'.signer = u
        touched == \/ stakeBal'[u] # stakeBal[u]
                   \/ refBal'[u] # refBal[u]
                   \/ TicketAt(u)' # TicketAt(u)
    IN  IF mine /\ last'.op = "deposit"
        THEN [phase |-> "deposited", n |-> last'.amount,
              ref0 |-> refBal[u], stake0 |-> stakeBal[u]]
        ELSE IF mine /\ last'.op = "unbond" /\ roundTrip[u].phase = "deposited"
                /\ last'.amount = roundTrip[u].n
        THEN [roundTrip[u] EXCEPT !.phase = "unbonded"]
        ELSE IF mine /\ last'.op = "redeem" /\ roundTrip[u].phase = "unbonded"
        THEN [roundTrip[u] EXCEPT !.phase = "done"]
        ELSE IF touched THEN NotObserving
        ELSE roundTrip[u]

ObserveRoundTrip == roundTrip' = [u \in Users |-> ObserveUser(u)]

\* the call succeeded
Succeeded == last'.err = "Ok"

(* ---------------------------- specifications --------------------------- *)
\* unbonding periods passed to initialize and update_config
PeriodArgs == {0, 1, 2, MAX_UNBONDING_PERIOD, MAX_UNBONDING_PERIOD + 1}
\* amounts passed to deposit, unbond and claim_rewards
AmountArgs == 0..MaxAmount

\* Staking flows of both users; only the calls that succeed are steps (a
\* failing call changes no account).
Next ==
    \/ \E p \in {1, 2} :
        /\ initialize("root", VaultMint, StakeMint, p, <<"alice">>, <<"alice">>)
        /\ Succeeded /\ ObserveRoundTrip
    \/ \E f \in BOOLEAN : pause("root", f) /\ Succeeded /\ ObserveRoundTrip
    \/ \E u \in Users, a \in AmountArgs :
        deposit(u, a) /\ Succeeded /\ ObserveRoundTrip
    \/ \E u \in Users, a \in AmountArgs :
        unbond(u, a) /\ Succeeded /\ ObserveRoundTrip
    \/ \E u \in Users : redeem(u, u) /\ Succeeded /\ ObserveRoundTrip
    \/ \E u, v \in Users, a \in AmountArgs :
        TransferStake(u, v, a) /\ ObserveRoundTrip
    \/ Tick /\ ObserveRoundTrip

Spec == Init /\ [][Next]_vars

\* Every call of the staking instructions is a step, the failing ones too
\* (they only set `last`).  alice deposits; bob gets stake tokens by transfer;
\* alice is the freeze administrator and a freeze targets alice's account.
NextCalls ==
    \/ \E s \in {"root", "alice"}, p \in {0, 1, 2} :
        /\ initialize(s, VaultMint, StakeMint, p, <<"alice">>, <<"alice">>)
        /\ UNCHANGED roundTrip
    \/ \E s \in {"root", "alice"}, f \in BOOLEAN :
        pause(s, f) /\ UNCHANGED roundTrip
    \/ \E a \in AmountArgs : deposit("alice", a) /\ UNCHANGED roundTrip
    \/ \E u \in Users, a \in AmountArgs : unbond(u, a) /\ UNCHANGED roundTrip
    \/ \E u, t \in Users : redeem(u, t) /\ UNCHANGED roundTrip
    \/ \E s \in Users, m \in Mints :
        freeze_token_account(s, m, "alice") /\ UNCHANGED roundTrip
    \/ \E s \in Users, m \in Mints :
        thaw_token_account(s, m, "alice") /\ UNCHANGED roundTrip
    \/ \E u, v \in Users, a \in AmountArgs :
        TransferStake(u, v, a) /\ UNCHANGED roundTrip
    \/ Tick /\ UNCHANGED roundTrip

SpecCalls == Init /\ [][NextCalls]_vars

\* administrator lists passed to initialize and to the list updates: empty,
\* one member, two members, MAX_ADMINISTRATORS members, one more than that
AdminListArgs ==
    { <<>>, <<"alice">>, <<"bob", "alice">>,
      <<"k1", "k2", "k3", "k4", "bob">>,
      <<"k1", "k2", "k3", "k4", "k5", "alice">> }

\* The authority model: every call of the root-gated and of the
\* administrator-gated instructions is a step, the failing ones too, and the
\* upgrade authority can be handed to alice or renounced.
NextAuth ==
    \/ \E new \in {"alice", None} : SetUpgradeAuthority(new) /\ UNCHANGED roundTrip
    \/ \E s \in {"root", "alice"}, m \in Mints, p \in {0, 1}, l \in AdminListArgs :
        /\ initialize(s, VaultMint, m, p, l, <<"alice">>)
        /\ UNCHANGED roundTrip
    \/ \E s \in Keys, f \in BOOLEAN : pause(s, f) /\ UNCHANGED roundTrip
    \/ \E s \in Keys, p \in PeriodArgs : update_config(s, p) /\ UNCHANGED roundTrip
    \/ \E s \in Keys, l \in AdminListArgs :
        update_freeze_administrators(s, l) /\ UNCHANGED roundTrip
    \/ \E s \in Keys, l \in AdminListArgs :
        update_rewards_administrators(s, l) /\ UNCHANGED roundTrip
    \/ \E s \in Users, m \in Mints, t \in Users :
        freeze_token_account(s, m, t) /\ UNCHANGED roundTrip
    \/ \E s \in Users, m \in Mints, t \in Users :
        thaw_token_account(s, m, t) /\ UNCHANGED roundTrip

SpecAuth == Init /\ [][NextAuth]_vars

\* Reward trees published for epoch `index`.  The pair tree has the leaves
\* (alice, 1) and (bob, 2); the single tree has the one leaf (alice, 2),
\* which is its own root; the odd tree has the one leaf (bob, 1) folded
\* with an absent (all-zero) sibling.
PairRoot(index) ==
    hashv(<< <<Leaf("alice", 1, index)>>, <<Leaf("bob", 2, index)>> >>)
SingleRoot(index) == Leaf("alice", 2, index)
OddRoot(index) == hashv(<< <<Leaf("bob", 1, index)>> >>)
RootArgs(index) == {PairRoot(index), SingleRoot(index), OddRoot(index)}

\* the proofs callers submit for epoch `index`
ProofLeft(index) == << [sibling |-> Leaf("bob", 2, index), is_left |-> FALSE] >>
ProofRight(index) == << [sibling |-> Leaf("alice", 1, index), is_left |-> TRUE] >>
ProofOdd == << [sibling |-> Zero32, is_left |-> FALSE] >>
ProofArgs(index) == { <<>>, ProofLeft(index), ProofRight(index), ProofOdd }

\* epoch indices
EpochArgs == {1, 2}

\* The reward flow: epochs are published and claimed, every call is a step,
\* the failing ones too; alice administers rewards and freezes.
NextRewards ==
    \/ /\ initialize("root", VaultMint, StakeMint, 1, <<"alice">>, <<"alice">>)
       /\ UNCHANGED roundTrip
    \/ \E f \in BOOLEAN : pause("root", f) /\ UNCHANGED roundTrip
    \/ freeze_token_account("alice", StakeMint, "bob") /\ UNCHANGED roundTrip
    \/ thaw_token_account("alice", StakeMint, "bob") /\ UNCHANGED roundTrip
    \/ \E s \in Users, i \in EpochArgs :
        \E r \in RootArgs(i) :
            create_rewards_epoch(s, i, r, 3) /\ UNCHANGED roundTrip
    \/ \E u \in Users, i \in EpochArgs, a \in AmountArgs :
        \E pr \in ProofArgs(i) :
            claim_rewards(u, i, a, pr) /\ UNCHANGED roundTrip

SpecRewards == Init /\ [][NextRewards]_vars

\* All twelve instructions around the pause flag: alice stakes and claims,
\* root toggles the flag and updates the configuration, alice and bob call
\* freeze and thaw; every call is a step, the failing ones too.
NextPause ==
    \/ /\ initialize("root", VaultMint, StakeMint, 1, <<"alice">>, <<"alice">>)
       /\ UNCHANGED roundTrip
    \/ \E s \in {"root", "bob"}, f \in BOOLEAN : pause(s, f) /\ UNCHANGED roundTrip
    \/ \E p \in {1, 2} : update_config("root", p) /\ UNCHANGED roundTrip
    \/ \E l \in {<<"alice">>, <<"bob">>} :
        update_freeze_administrators("root", l) /\ UNCHANGED roundTrip
    \/ update_rewards_administrators("root", <<"alice">>) /\ UNCHANGED roundTrip
    \/ \E s \in Users : freeze_token_account(s, StakeMint, "alice") /\ UNCHANGED roundTrip
    \/ \E s \in Users : thaw_token_account(s, StakeMint, "alice") /\ UNCHANGED roundTrip
    \/ \E a \in AmountArgs : deposit("alice", a) /\ UNCHANGED roundTrip
    \/ \E a \in AmountArgs : unbond("alice", a) /\ UNCHANGED roundTrip
    \/ redeem("alice", "alice") /\ UNCHANGED roundTrip
    \/ \E s \in Users : create_rewards_epoch(s, 1, PairRoot(1), 3) /\ UNCHANGED roundTrip
    \/ \E a \in AmountArgs : claim_rewards("alice", 1, a, ProofLeft(1)) /\ UNCHANGED roundTrip
    \/ Tick /\ UNCHANGED roundTrip

SpecPause == Init /\ [][NextPause]_vars

\* Publishing epochs: the rewards list is replaced, both users try to
\* publish and to claim, and the clock runs; every call is a step.
NextEpochs ==
    \/ /\ initialize("root", VaultMint, StakeMint, 1, <<"alice">>, <<"alice">>)
       /\ UNCHANGED roundTrip
    \/ \E l \in {<<>>, <<"bob">>, <<"bob", "alice">>} :
        update_rewards_administrators("root", l) /\ UNCHANGED roundTrip
    \/ \E s \in Users, i \in EpochArgs :
        \E r \in RootArgs(i) :
            create_rewards_epoch(s, i, r, 3) /\ UNCHANGED roundTrip
    \/ \E u \in Users, i \in EpochArgs, a \in AmountArgs :
        \E pr \in {<<>>, ProofLeft(i)} :
            claim_rewards(u, i, a, pr) /\ UNCHANGED roundTrip
    \/ Tick /\ UNCHANGED roundTrip

SpecEpochs == Init /\ [][NextEpochs]_vars

\* Staking together with rewards: alice deposits, unbonds, redeems and
\* passes stake tokens on to bob, both claim their reward of epoch 1; the
\* protocol is paused and resumed and the clock runs.  Every call is a step.
NextRedeem ==
    \/ /\ initialize("root", VaultMint, StakeMint, 1, <<"alice">>, <<"alice">>)
       /\ UNCHANGED roundTrip
    \/ \E f \in BOOLEAN : pause("root", f) /\ UNCHANGED roundTrip
    \/ \E a \in AmountArgs : deposit("alice", a) /\ UNCHANGED roundTrip
    \/ create_rewards_epoch("alice", 1, PairRoot(1), 3) /\ UNCHANGED roundTrip
    \/ claim_rewards("alice", 1, 1, ProofLeft(1)) /\ UNCHANGED roundTrip
    \/ claim_rewards("bob", 1, 2, ProofRight(1)) /\ UNCHANGED roundTrip
    \/ \E a \in AmountArgs : unbond("alice", a) /\ UNCHANGED roundTrip
    \/ redeem("alice", "alice") /\ UNCHANGED roundTrip
    \/ \E a \in AmountArgs :
        TransferStake("alice", "bob", a) /\ UNCHANGED roundTrip
    \/ Tick /\ UNCHANGED roundTrip

SpecRedeem == Init /\ [][NextRedeem]_vars

\* Proof steps callers submit: an absent (all-zero) sibling or the leaf of
\* (bob, 2), on either side
StepArgs(index) ==
    { [sibling |-> s, is_left |-> b] :
          s \in {Zero32, Leaf("bob", 2, index)}, b \in BOOLEAN }

\* all proofs of at most MaxLen such steps
PathArgs(index) ==
    UNION { [1..n -> StepArgs(index)] : n \in 0..MaxLen }

\* The verifier: an administrator publishes, for epoch 1, the root that
\* some proof derives from alice's leaf for amount 1, and both users claim
\* with every proof and amount.
NextProof ==
    \/ /\ initialize("root", VaultMint, StakeMint, 1, <<"alice">>, <<"alice">>)
       /\ UNCHANGED roundTrip
    \/ \E s \in Users, pr \in PathArgs(1) :
        /\ create_rewards_epoch(s, 1, Fold(Leaf("alice", 1, 1), pr), 1)
        /\ UNCHANGED roundTrip
    \/ \E u \in Users, a \in AmountArgs, pr \in PathArgs(1) :
        claim_rewards(u, 1, a, pr) /\ UNCHANGED roundTrip

SpecProof == Init /\ [][NextProof]_vars

\* roots and proofs of either epoch index
AnyRootArgs == UNION {RootArgs(i) : i \in EpochArgs}
AnyProofArgs == UNION {ProofArgs(i) : i \in EpochArgs}

\* Replaying proofs: alice publishes, for either index, a tree built for
\* either index, and both users claim in either epoch with every amount and
\* with the proofs of either index.  Every call is a step.
NextBinding ==
    \/ /\ initialize("root", VaultMint, StakeMint, 1, <<"alice">>, <<"alice">>)
       /\ UNCHANGED roundTrip
    \/ \E i \in EpochArgs, r \in AnyRootArgs :
        create_rewards_epoch("alice", i, r, 3) /\ UNCHANGED roundTrip
    \/ \E u \in Users, i \in EpochArgs, a \in AmountArgs, pr \in AnyProofArgs :
        claim_rewards(u, i, a, pr) /\ UNCHANGED roundTrip

SpecBinding == Init /\ [][NextBinding]_vars

\* Changing the period under a live ticket: the protocol starts with period
\* 1, the authority (and alice, in vain) sets it to 0, 1 or 2, alice
\* deposits, unbonds and redeems, and the clock runs.  Every call is a step.
NextPeriod ==
    \/ /\ initialize("root", VaultMint, StakeMint, 1, <<"alice">>, <<"alice">>)
       /\ UNCHANGED roundTrip
    \/ \E s \in {"root", "alice"}, p \in {0, 1, 2} :
        update_config(s, p) /\ UNCHANGED roundTrip
    \/ \E a \in AmountArgs : deposit("alice", a) /\ UNCHANGED roundTrip
    \/ \E a \in AmountArgs : unbond("alice", a) /\ UNCHANGED roundTrip
    \/ redeem("alice", "alice") /\ UNCHANGED roundTrip
    \/ Tick /\ UNCHANGED roundTrip

SpecPeriod == Init /\ [][NextPeriod]_vars

\* totals an administrator records with a tree: less than the tree commits,
\* and the 3 tokens the pair tree commits
TotalArgs == {1, 3}

\* Recorded totals: alice publishes the trees of either epoch with either
\* total, and both users claim with every amount and proof.  Every call is a
\* step.
NextTotals ==
    \/ /\ initialize("root", VaultMint, StakeMint, 1, <<"alice">>, <<"alice">>)
       /\ UNCHANGED roundTrip
    \/ \E i \in EpochArgs, t \in TotalArgs :
        \E r \in RootArgs(i) :
            create_rewards_epoch("alice", i, r, t) /\ UNCHANGED roundTrip
    \/ \E u \in Users, i \in EpochArgs, a \in AmountArgs :
        \E pr \in ProofArgs(i) :
            claim_rewards(u, i, a, pr) /\ UNCHANGED roundTrip

SpecTotals == Init /\ [][NextTotals]_vars

\* Renouncing the upgrade authority: root initializes, configures and
\* pauses, and at some point renounces; root keeps calling the configuration
\* instructions, alice stakes and claims, and the clock runs.  Every call is
\* a step.
NextRenounce ==
    \/ SetUpgradeAuthority(None) /\ UNCHANGED roundTrip
    \/ /\ initialize("root", VaultMint, StakeMint, 1, <<"alice">>, <<"alice">>)
       /\ UNCHANGED roundTrip
    \/ \E f \in BOOLEAN : pause("root", f) /\ UNCHANGED roundTrip
    \/ \E p \in {1, 2} : update_config("root", p) /\ UNCHANGED roundTrip
    \/ \E l \in {<<>>, <<"alice">>} :
        update_freeze_administrators("root", l) /\ UNCHANGED roundTrip
    \/ \E l \in {<<"bob">>, <<"alice">>} :
        update_rewards_administrators("root", l) /\ UNCHANGED roundTrip
    \/ \E a \in AmountArgs : deposit("alice", a) /\ UNCHANGED roundTrip
    \/ \E a \in AmountArgs : unbond("alice", a) /\ UNCHANGED roundTrip
    \/ redeem("alice", "alice") /\ UNCHANGED roundTrip
    \/ create_rewards_epoch("alice", 1, PairRoot(1), 3) /\ UNCHANGED roundTrip
    \/ claim_rewards("alice", 1, 1, ProofLeft(1)) /\ UNCHANGED roundTrip
    \/ Tick /\ UNCHANGED roundTrip

SpecRenounce == Init /\ [][NextRenounce]_vars

(* ------------------------------- claims -------------------------------- *)
\* C1: Balance conservation.  In every state reached by successful deposits
\* and redeems of any users (and unbonds, transfers of stake tokens and
\* pauses in between), with no reward claimed, the stake tokens minted
\* minus the stake tokens burned (the supply of the stake mint) equal the
\* reference tokens held in the vault, and the holders' stake balances add
\* up to that supply.
C1_BalanceConservation ==
    claimRecords = {} =>
        /\ stakeSupply = vaultBal
        /\ stakeBal["alice"] + stakeBal["bob"] = stakeSupply

\* C1 witness: a redeem has succeeded after deposits and part of the
\* deposits is still in the vault.
C1_Witness ==
    /\ last.op = "redeem" /\ last.err = "Ok"
    /\ vaultBal > 0 /\ stakeSupply = vaultBal
    /\ stakeBal["alice"] > 0 /\ stakeBal["bob"] > 0

\* C5: Round trip.  When a user's successful deposit(n), unbond(n) and
\* redeem follow one another (no other step touching the user's balances or
\* ticket in between), the redeem pays out exactly n reference tokens, the
\* user's reference balance and stake balance are what they were before the
\* deposit, and the user has no ticket.
C5_RoundTrip ==
    \A u \in Users :
        roundTrip[u].phase = "done" =>
            /\ roundTrip[u].n > 0
            /\ refBal[u] = roundTrip[u].ref0
            /\ stakeBal[u] = roundTrip[u].stake0
            /\ TicketAt(u) = {}
            /\ (last.op = "redeem" /\ last.signer = u
                    => last.amount = roundTrip[u].n)

\* C5 witness: alice has completed a round trip of 2 tokens that started
\* with a stake balance of 1, and the redeem is the latest call.
C5_Witness ==
    /\ roundTrip["alice"].phase = "done"
    /\ roundTrip["alice"].n = 2
    /\ roundTrip["alice"].stake0 = 1
    /\ last.op = "redeem" /\ last.signer = "alice"

\* C9: Redeem clamp.  A successful redeem burns exactly
\* r = min(ticket.requested_amount, caller's stake balance at redeem time)
\* stake tokens from the caller and moves exactly r reference tokens from the
\* vault to the caller; r exceeds neither the balance nor the requested
\* amount.
C9_RedeemClamp ==
    [][last'.op = "redeem" /\ last'.err = "Ok" =>
        LET u == last'.signer
            t == CHOOSE x \in tickets : x.addr = u
            r == IF t.requested_amount <= stakeBal[u]
                 THEN t.requested_amount ELSE stakeBal[u]
        IN  /\ TicketAt(u) # {}
            /\ r > 0 /\ r <= stakeBal[u] /\ r <= t.requested_amount
            /\ stakeBal'[u] = stakeBal[u] - r
            /\ stakeSupply' = stakeSupply - r
            /\ vaultBal' = vaultBal - r
            /\ refBal'[u] = refBal[u] + r
            /\ \A v \in Users \ {u} :
                   stakeBal'[v] = stakeBal[v] /\ refBal'[v] = refBal[v]
            /\ last'.amount = r]_vars

\* C9 witness: a redeem succeeded for less than the ticket requested (the
\* balance shrank after unbond).
C9_Witness ==
    /\ last.op = "redeem" /\ last.err = "Ok"
    /\ last.amount > 0 /\ last.amount < last.requested

\* the live tickets whose owner field is o
TicketsOf(o) == {t \in tickets : t.owner = o}

\* C2 (as amended): Time-lock.  While the protocol is not paused, a redeem
\* of a live ticket by its owner fails with UnbondingPeriodNotElapsed when
\* now - start_ts < unbonding_period, and succeeds when
\* now - start_ts >= unbonding_period provided the owner's stake balance is
\* > 0, the vault holds at least the redeem amount and the owner's stake
\* account is not frozen; a redeem rejected with UnbondingPeriodNotElapsed
\* was made before the period had elapsed.
C2_TimeLock ==
    /\ \A u \in Users : \A t \in TicketsOf(u) :
        ~config.paused =>
            /\ now - t.start_ts < config.unbonding_period
                  => redeemErr(u, u) = "UnbondingPeriodNotElapsed"
            /\ ( /\ now - t.start_ts >= config.unbonding_period
                 /\ stakeBal[u] > 0
                 /\ vaultBal >= Min(t.requested_amount, stakeBal[u])
                 /\ u \notin frozen )
                  => redeemErr(u, u) = "Ok"
    /\ (last.op = "redeem" /\ last.err = "UnbondingPeriodNotElapsed")
          => \E t \in TicketsOf(last.signer) :
                 now - t.start_ts < config.unbonding_period

\* C2 as stated: the same without the provisos on the pause flag and the
\* frozen account.
C2_TimeLock_AsStated ==
    \A u \in Users : \A t \in TicketsOf(u) :
        /\ now - t.start_ts < config.unbonding_period
              => redeemErr(u, u) = "UnbondingPeriodNotElapsed"
        /\ ( /\ now - t.start_ts >= config.unbonding_period
             /\ stakeBal[u] > 0
             /\ vaultBal >= Min(t.requested_amount, stakeBal[u]) )
              => redeemErr(u, u) = "Ok"

\* C2 witness: a redeem was rejected one second before a two-second period
\* ended, the ticket still live.
C2_Witness ==
    /\ last.op = "redeem" /\ last.err = "UnbondingPeriodNotElapsed"
    /\ config.unbonding_period = 2
    /\ \E t \in TicketsOf(last.signer) : now - t.start_ts = 1

\* C3: Single ticket.  Each owner has at most one live ticket; while an
\* owner has one, unbond fails for every amount (the ticket account already
\* exists), and the call leaves the tickets unchanged.
C3_SingleTicket ==
    /\ [] /\ \A o \in Users : Cardinality(TicketsOf(o)) <= 1
          /\ \A u \in Users : TicketsOf(u) # {} =>
                 \A a \in 0..(MaxAmount + 1) :
                     unbondErr(u, a) = "AccountAlreadyInUse"
    /\ [][ (last'.op = "unbond" /\ TicketsOf(last'.signer) # {})
               => /\ last'.err = "AccountAlreadyInUse"
                  /\ tickets' = tickets ]_vars

\* C3 witness: an unbond was rejected because the caller's ticket exists,
\* and the caller could have covered another unbond.
C3_Witness ==
    /\ last.op = "unbond" /\ last.err = "AccountAlreadyInUse"
    /\ \E t \in TicketsOf(last.signer) :
           t.requested_amount < stakeBal[last.signer]

\* C10 (as amended): a redeem by a caller who has no live ticket of their
\* own fails in account validation, with AccountNotInitialized when the
\* ticket account passed does not exist and with ConstraintSeeds when it is
\* another owner's ticket, and moves no tokens and closes no ticket.
C10_RedeemNeedsOwnTicket ==
    [][ (last'.op = "redeem" /\ TicketsOf(last'.signer) = {}) =>
            /\ last'.err \in {"AccountNotInitialized", "ConstraintSeeds"}
            /\ UNCHANGED <<refBal, vaultBal, stakeBal, stakeSupply, tickets>>
      ]_vars

\* C10 as stated: such a call fails with InvalidTicketOwner.
C10_AsStated ==
    [][ (last'.op = "redeem" /\ TicketsOf(last'.signer) = {}) =>
            /\ last'.err = "InvalidTicketOwner"
            /\ UNCHANGED <<refBal, vaultBal, stakeBal, stakeSupply, tickets>>
      ]_vars

\* C10 witness: a caller without a ticket passed the other owner's matured
\* ticket and was rejected.
C10_Witness ==
    /\ last.op = "redeem" /\ last.err = "ConstraintSeeds"
    /\ TicketsOf(last.signer) = {}
    /\ \E t \in tickets : now - t.start_ts >= config.unbonding_period
    /\ ~config.paused

\* k is one of the keys stored in the list
Member(list, k) == \E i \in 1..Len(list) : list[i] = k

\* C7 (as amended): Freeze gating.  Once the configuration exists, with the
\* stake mint (whose freeze authority is the derived freeze authority)
\* freeze_token_account succeeds iff the caller is in the current
\* freeze-administrator list and the target is not frozen yet, and
\* thaw_token_account succeeds iff the caller is in the list and the target
\* is frozen; a caller outside the list fails with
\* UnauthorizedFreezeAdministrator; with a mint under another freeze
\* authority every caller fails with InvalidFreezeAuthority; a key that a
\* step removes from the list is rejected by freeze and thaw right after it.
C7_FreezeGating ==
    /\ [] (config.initialized =>
            \A s \in Users, t \in Users :
                LET member == Member(config.freeze_administrators, s)
                IN  /\ freeze_token_accountErr(s, StakeMint, t) = "Ok"
                          <=> (member /\ t \notin frozen)
                    /\ thaw_token_accountErr(s, StakeMint, t) = "Ok"
                          <=> (member /\ t \in frozen)
                    /\ ~member =>
                          /\ freeze_token_accountErr(s, StakeMint, t)
                                = "UnauthorizedFreezeAdministrator"
                          /\ thaw_token_accountErr(s, StakeMint, t)
                                = "UnauthorizedFreezeAdministrator"
                    /\ freeze_token_accountErr(s, VaultMint, t)
                          = "InvalidFreezeAuthority"
                    /\ thaw_token_accountErr(s, VaultMint, t)
                          = "InvalidFreezeAuthority")
    /\ [][
        /\ \A s \in Users :
              ( /\ Member(config.freeze_administrators, s)
                /\ ~Member(config'.freeze_administrators, s) ) =>
                  \A m \in Mints, t \in Users :
                      /\ freeze_token_accountErr(s, m, t)' # "Ok"
                      /\ thaw_token_accountErr(s, m, t)' # "Ok"
        /\ (last'.op \in {"freeze_token_account", "thaw_token_account"}
              /\ last'.err = "Ok")
              => Member(config.freeze_administrators, last'.signer)
        /\ (last'.op \in {"freeze_token_account", "thaw_token_account"}
              /\ last'.err # "Ok")
              => frozen' = frozen ]_vars

\* C7 as stated: with the stake mint, freeze and thaw succeed iff the caller
\* is in the current list, and a caller outside the list fails with
\* UnauthorizedFreezeAdministrator.
C7_AsStated ==
    config.initialized =>
        \A s \in Users, t \in Users :
            LET member == Member(config.freeze_administrators, s)
            IN  /\ freeze_token_accountErr(s, StakeMint, t) = "Ok" <=> member
                /\ thaw_token_accountErr(s, StakeMint, t) = "Ok" <=> member
                /\ ~member =>
                      /\ freeze_token_accountErr(s, StakeMint, t)
                            = "UnauthorizedFreezeAdministrator"
                      /\ thaw_token_accountErr(s, StakeMint, t)
                            = "UnauthorizedFreezeAdministrator"

\* C7 witness: alice, not in the list, was refused a thaw of an account
\* that an administrator had frozen.
C7_Witness ==
    /\ last.op = "thaw_token_account"
    /\ last.err = "UnauthorizedFreezeAdministrator"
    /\ last.signer = "alice"
    /\ ~Member(config.freeze_administrators, "alice")
    /\ frozen # {}

\* the root-gated instructions
RootGated ==
    {"initialize", "pause", "update_config", "update_freeze_administrators",
     "update_rewards_administrators"}

\* C8 (as amended): Root gating.  A root-gated call succeeds only when the
\* signer is the upgrade authority recorded in the program data.  When the
\* call passes account validation (no configuration yet for initialize, an
\* existing one for the others), a signer other than the recorded authority
\* fails with InvalidUpgradeAuthority, also a member of an administrator
\* list, and with no authority recorded the call fails with
\* NoUpgradeAuthority.  Every failing call leaves the configuration unchanged.
C8_RootGating ==
    [][ last'.op \in RootGated =>
          LET validated == IF last'.op = "initialize"
                           THEN ~config.initialized ELSE config.initialized
          IN  /\ last'.err = "Ok" =>
                    programData # None /\ last'.signer = programData
              /\ (validated /\ programData = None)
                    => last'.err = "NoUpgradeAuthority"
              /\ (validated /\ programData # None
                     /\ last'.signer # programData)
                    => last'.err = "InvalidUpgradeAuthority"
              /\ ~validated =>
                    last'.err \in {"AccountAlreadyInUse", "AccountNotInitialized"}
              /\ last'.err # "Ok" => config' = config ]_vars

\* C8 as stated: every root-gated call by a signer other than the recorded
\* authority fails with InvalidUpgradeAuthority, and with NoUpgradeAuthority
\* when none is recorded.
C8_AsStated ==
    [][ last'.op \in RootGated =>
          /\ last'.err = "Ok" =>
                programData # None /\ last'.signer = programData
          /\ programData = None => last'.err = "NoUpgradeAuthority"
          /\ (programData # None /\ last'.signer # programData)
                => last'.err = "InvalidUpgradeAuthority"
          /\ last'.err # "Ok" => config' = config ]_vars

\* C8 witness: alice, a member of both administrator lists but not the
\* upgrade authority, was refused a replacement of the freeze list.
C8_Witness ==
    /\ last.op = "update_freeze_administrators"
    /\ last.err = "InvalidUpgradeAuthority"
    /\ last.signer = "alice"
    /\ Member(config.freeze_administrators, "alice")
    /\ Member(config.rewards_administrators, "alice")
    /\ programData = "root"

\* the claims <<user, amount, proof>> that the tree with this root grants
Entitled(root, index) ==
    IF root = PairRoot(index)
        THEN { <<"alice", 1, ProofLeft(index)>>, <<"bob", 2, ProofRight(index)>> }
    ELSE IF root = SingleRoot(index) THEN { <<"alice", 2, <<>> >> }
    ELSE IF root = OddRoot(index) THEN { <<"bob", 1, ProofOdd>> }
    ELSE {}

\* what the claims of user u have minted so far, over all epochs
RECURSIVE MintedByClaims(_, _)
MintedByClaims(u, indices) ==
    IF indices = {} THEN 0
    ELSE LET i == CHOOSE j \in indices : TRUE
             minted == IF Claimed(i, u) = <<>> THEN 0 ELSE Claimed(i, u)[1]
         IN  minted + MintedByClaims(u, indices \ {i})

\* C4 (as amended): Double-claim invariant.  For a fixed (epoch, claimant)
\* at most one claim_rewards attempt ever succeeds, and every attempt made
\* once the pair is claimed fails, whatever its amount and proof; a failing
\* attempt mints nothing; the successful one mints exactly its amount, which
\* is all the claimant ever gets for that epoch.  An attempt with a valid
\* proof for a pair not yet claimed succeeds provided the protocol is not
\* paused and the claimant's stake account is not frozen.
C4_DoubleClaim ==
    /\ [] /\ DOMAIN claimLog = claimRecords
          /\ \A k \in claimRecords : Len(claimLog[k]) = 1
          /\ \A u \in Users : stakeBal[u] = MintedByClaims(u, EpochArgs)
          /\ \A i \in EpochArgs, u \in Users : <<i, u>> \in claimRecords =>
                \A a \in AmountArgs : \A pr \in ProofArgs(i) :
                    claim_rewardsErr(u, i, a, pr) = "AccountAlreadyInUse"
          /\ \A e \in epochs : \A c \in Entitled(e.merkle_root, e.index) :
                ( /\ <<e.index, c[1]>> \notin claimRecords
                  /\ ~config.paused
                  /\ c[1] \notin frozen )
                    => claim_rewardsErr(c[1], e.index, c[2], c[3]) = "Ok"
    /\ [][
        /\ (last'.op = "claim_rewards" /\ last'.err # "Ok") =>
              UNCHANGED <<stakeBal, stakeSupply, claimRecords, claimLog>>
        /\ (last'.op = "claim_rewards" /\ last'.err = "Ok") =>
              \E i \in EpochArgs :
                  LET k == <<i, last'.signer>>
                  IN  /\ k \notin claimRecords
                      /\ claimRecords' = claimRecords \cup {k}
                      /\ claimLog'[k] = <<last'.amount>>
                      /\ stakeBal' = [stakeBal EXCEPT
                                         ![last'.signer] = @ + last'.amount]
                      /\ stakeSupply' = stakeSupply + last'.amount
      ]_vars

\* C4 as stated: an attempt with a valid proof for a pair not yet claimed
\* succeeds, so that exactly one attempt does.
C4_AsStated ==
    \A e \in epochs : \A c \in Entitled(e.merkle_root, e.index) :
        <<e.index, c[1]>> \notin claimRecords
            => claim_rewardsErr(c[1], e.index, c[2], c[3]) = "Ok"

\* C4 witness: bob claimed epoch 2, and his next attempt was refused while
\* the protocol was running and his account was not frozen.
C4_Witness ==
    /\ last.op = "claim_rewards" /\ last.signer = "bob"
    /\ last.err = "AccountAlreadyInUse"
    /\ <<2, "bob">> \in claimRecords
    /\ <<1, "bob">> \notin claimRecords
    /\ Claimed(2, "bob") = <<2>>
    /\ stakeBal["bob"] = 2
    /\ ~config.paused /\ "bob" \notin frozen

\* the four user instructions
UserGated == {"deposit", "unbond", "redeem", "claim_rewards"}

\* C6: Pause gating.  While config.paused is true, deposit, unbond, redeem
\* and claim_rewards fail for every caller and argument, and such a call
\* changes nothing; pause, update_config and the administrator-list updates
\* still succeed for the upgrade authority, and freeze and thaw for a freeze
\* administrator; once the flag is false again no user instruction is
\* rejected with ProtocolPaused; the flag is all that pause changes.
C6_PauseGating ==
    /\ [] /\ config.paused =>
              /\ \A u \in Users, a \in 0..(MaxAmount + 1) :
                    /\ depositErr(u, a) # "Ok"
                    /\ unbondErr(u, a) # "Ok"
                    /\ \A i \in EpochArgs :
                          /\ claim_rewardsErr(u, i, a, <<>>) # "Ok"
                          /\ claim_rewardsErr(u, i, a, ProofLeft(i)) # "Ok"
              /\ \A u, t \in Users : redeemErr(u, t) # "Ok"
              /\ programData # None =>
                    /\ pauseErr(programData) = "Ok"
                    /\ \A p \in {1, 2, MAX_UNBONDING_PERIOD} :
                          update_configErr(programData, p) = "Ok"
                    /\ \A l \in AdminListArgs : Len(l) <= 5 =>
                          update_administratorsErr(programData, l) = "Ok"
              /\ \A s \in Users, t \in Users :
                    Member(config.freeze_administrators, s) =>
                        IF t \in frozen
                        THEN thaw_token_accountErr(s, StakeMint, t) = "Ok"
                        ELSE freeze_token_accountErr(s, StakeMint, t) = "Ok"
          /\ (config.initialized /\ ~config.paused) =>
              \A u \in Users, a \in AmountArgs :
                  /\ depositErr(u, a) # "ProtocolPaused"
                  /\ unbondErr(u, a) # "ProtocolPaused"
                  /\ redeemErr(u, u) # "ProtocolPaused"
                  /\ \A i \in EpochArgs :
                        claim_rewardsErr(u, i, a, ProofLeft(i)) # "ProtocolPaused"
    /\ [][
        /\ (config.paused /\ last'.op \in UserGated) =>
              /\ last'.err # "Ok"
              /\ UNCHANGED <<programData, config, vaultOwner, refBal,
                             vaultBal, stakeBal, stakeSupply, frozen,
                             tickets, epochs, claimRecords, claimLog, now>>
        /\ (last'.op = "pause" /\ last'.err = "Ok") =>
              config' = [config EXCEPT !.paused = config'.paused]
      ]_vars

\* C6 witness: while the protocol was paused, alice's redeem of her matured
\* ticket was refused, her balances and the vault able to cover it.
C6_Witness ==
    /\ config.paused
    /\ last.op = "redeem" /\ last.err = "ProtocolPaused"
    /\ \E t \in TicketsOf(last.signer) :
          /\ now - t.start_ts >= config.unbonding_period
          /\ stakeBal[last.signer] >= t.requested_amount
          /\ vaultBal >= t.requested_amount
    /\ last.signer \notin frozen

\* C11: Ticket lifecycle.  Per user a ticket appears only by the user's own
\* successful unbond and disappears only by the user's own successful
\* redeem; a live ticket is never modified; every successful redeem closes
\* the caller's ticket, also when it paid less than the requested amount;
\* and a user without a ticket can unbond any amount from 1 up to the
\* balance while the protocol runs.
C11_TicketLifecycle ==
    /\ [] \A u \in Users, a \in 1..(MaxAmount + 1) :
            ( /\ config.initialized /\ ~config.paused
              /\ TicketsOf(u) = {} /\ a <= stakeBal[u] )
                => unbondErr(u, a) = "Ok"
    /\ [][ \A u \in Users :
            /\ (TicketsOf(u) = {} /\ TicketsOf(u)' # {}) =>
                  /\ last'.op = "unbond" /\ last'.err = "Ok"
                  /\ last'.signer = u
            /\ (TicketsOf(u) # {} /\ TicketsOf(u)' = {}) =>
                  /\ last'.op = "redeem" /\ last'.err = "Ok"
                  /\ last'.signer = u
            /\ (TicketsOf(u) # {} /\ TicketsOf(u)' # {}) =>
                  TicketsOf(u)' = TicketsOf(u)
            /\ (last'.op = "redeem" /\ last'.err = "Ok" /\ last'.signer = u)
                  => (TicketsOf(u) # {} /\ TicketsOf(u)' = {})
            /\ (last'.op = "unbond" /\ last'.err = "Ok" /\ last'.signer = u)
                  => (TicketsOf(u) = {} /\ TicketsOf(u)' # {})
         ]_vars

\* C11 witness: a redeem paid less than its ticket asked for, and the
\* caller's ticket is closed.
C11_Witness ==
    /\ last.op = "redeem" /\ last.err = "Ok"
    /\ last.amount < last.requested
    /\ TicketsOf(last.signer) = {}
    /\ ~config.paused

\* C12: Deposit.  A successful deposit(amount) has amount > 0, takes
\* exactly amount reference tokens from the caller, adds exactly amount to
\* the vault and mints exactly amount stake tokens to the caller; once the
\* configuration exists deposit(0) fails with InvalidAmount; a failing
\* deposit, its transfer leg or mint leg included, changes no balance.
C12_Deposit ==
    /\ [] (config.initialized =>
              \A u \in Users : depositErr(u, 0) = "InvalidAmount")
    /\ [][ last'.op = "deposit" =>
            LET u == last'.signer
                n == last'.amount
            IN  IF last'.err = "Ok"
                THEN /\ n > 0
                     /\ refBal' = [refBal EXCEPT ![u] = @ - n]
                     /\ vaultBal' = vaultBal + n
                     /\ stakeBal' = [stakeBal EXCEPT ![u] = @ + n]
                     /\ stakeSupply' = stakeSupply + n
                ELSE UNCHANGED <<refBal, vaultBal, stakeBal, stakeSupply>>
         ]_vars

\* C12 witness: a deposit whose transfer leg the caller could pay failed in
\* the mint leg, the caller's stake account being frozen, after an earlier
\* deposit had gone through.
C12_Witness ==
    /\ last.op = "deposit" /\ last.err = "AccountFrozen"
    /\ refBal[last.signer] > 0
    /\ last.signer \in frozen
    /\ vaultBal > 0

\* C13: VaultConfig invariants.  Once initialize has succeeded, the
\* configuration has different reference and stake mints, an unbonding
\* period between 1 and 31536000 seconds and at most 5 members in each
\* administrator list, in every state; no step destroys it or changes its
\* two mints.
C13_ConfigInvariants ==
    /\ [] (config.initialized =>
              /\ config.vault # config.mint
              /\ config.unbonding_period >= 1
              /\ config.unbonding_period <= 31536000
              /\ Len(config.freeze_administrators) <= 5
              /\ Len(config.rewards_administrators) <= 5)
    /\ [][ config.initialized =>
              /\ config'.initialized
              /\ config'.vault = config.vault
              /\ config'.mint = config.mint ]_vars

\* C13 witness: the configuration sits at both upper limits, a period of
\* 31536000 and a freeze list of 5, and a list of 6 has just been refused.
C13_Witness ==
    /\ config.initialized
    /\ config.unbonding_period = 31536000
    /\ Len(config.freeze_administrators) = 5
    /\ last.op = "update_rewards_administrators"
    /\ last.err = "TooManyAdministrators"

\* C14: Initialize is one-shot.  initialize succeeds only while no
\* configuration exists, and the configuration it creates stays, so it
\* succeeds at most once; afterwards every initialize fails for every
\* signer, the upgrade authority included, and every argument, and leaves
\* the configuration, its pause flag and administrator lists included,
\* unchanged.
C14_InitializeOnce ==
    /\ [] (config.initialized =>
              \A s \in Keys, m \in Mints, p \in PeriodArgs :
                  \A l \in AdminListArgs :
                      initializeErr(s, VaultMint, m, p, l, l) # "Ok")
    /\ [][ /\ config.initialized => config'.initialized
           /\ last'.op = "initialize" =>
                /\ last'.err = "Ok" =>
                      (~config.initialized /\ config'.initialized)
                /\ config.initialized =>
                      (last'.err # "Ok" /\ config' = config) ]_vars

\* C14 witness: the upgrade authority called initialize again on a paused
\* configuration whose freeze list had been replaced, and was refused.
C14_Witness ==
    /\ last.op = "initialize" /\ last.err = "AccountAlreadyInUse"
    /\ last.signer = programData
    /\ config.initialized /\ config.paused
    /\ Len(config.freeze_administrators) = 5
    /\ config.unbonding_period = 2

\* C15: Reward epochs are admin-gated and append-only.  Once the
\* configuration exists, create_rewards_epoch succeeds exactly when the
\* caller is in the current rewards-administrator list and no epoch exists
\* for the index; for a new index a caller outside the list fails with
\* InvalidRewardsAdministrator; for an existing index every caller fails;
\* there is one epoch per index; no step modifies or removes an epoch, and
\* an epoch is added only by a successful create_rewards_epoch, stamped
\* with the current time.
C15_EpochsAppendOnly ==
    /\ [] /\ config.initialized =>
              \A s \in Users, i \in EpochArgs :
                  LET member == Member(config.rewards_administrators, s)
                      exists == \E e \in epochs : e.index = i
                  IN  /\ create_rewards_epochErr(s, i) = "Ok"
                            <=> (member /\ ~exists)
                      /\ (~member /\ ~exists) =>
                            create_rewards_epochErr(s, i)
                                = "InvalidRewardsAdministrator"
                      /\ exists =>
                            create_rewards_epochErr(s, i) = "AccountAlreadyInUse"
          /\ \A e1, e2 \in epochs : e1.index = e2.index => e1 = e2
    /\ [][ /\ epochs \subseteq epochs'
           /\ epochs' # epochs =>
                /\ last'.op = "create_rewards_epoch" /\ last'.err = "Ok"
                /\ Member(config.rewards_administrators, last'.signer)
                /\ \E e \in epochs' \ epochs :
                      /\ epochs' = epochs \cup {e}
                      /\ e.created_ts = now
                      /\ \A e0 \in epochs : e0.index # e.index
           /\ (last'.op = "create_rewards_epoch" /\ last'.err = "Ok")
                => epochs' # epochs ]_vars

\* C15 witness: alice published an epoch at time 1, was then taken off the
\* rewards list, and her attempt to publish the other epoch was refused;
\* a claim against the published epoch has been paid.
C15_Witness ==
    /\ last.op = "create_rewards_epoch" /\ last.signer = "alice"
    /\ last.err = "InvalidRewardsAdministrator"
    /\ config.rewards_administrators = <<"bob">>
    /\ \E e \in epochs : e.created_ts = 1
    /\ Cardinality(epochs) = 1
    /\ claimRecords # {}

\* siblings a tampered proof may carry
TamperSiblings(index) ==
    {Zero32, Leaf("bob", 2, index), Leaf("bob", 1, index)}

\* the proofs obtained from p by changing the sibling of one step
SiblingChanged(p, index) ==
    { [p EXCEPT ![k].sibling = s] :
          k \in 1..Len(p), s \in TamperSiblings(index) } \ {p}

\* the proofs obtained from p by putting its steps in another order
Reordered(p) ==
    { [i \in 1..Len(p) |-> p[f[i]]] : f \in Permutations(1..Len(p)) } \ {p}

\* the proofs obtained from p by cutting steps off its end
Truncated(p) == { SubSeq(p, 1, k) : k \in 0..(Len(p) - 1) }

\* p with the orientation flag, which the fold ignores next to an absent
\* sibling, cleared on the steps whose sibling is absent
Oriented(p) ==
    [i \in 1..Len(p) |->
        IF p[i].sibling = Zero32 THEN [p[i] EXCEPT !.is_left = FALSE] ELSE p[i]]

\* the proofs that fold alice's leaf for amount 1 to the root of epoch e
ValidPaths(e) ==
    { p \in PathArgs(e.index) :
          Fold(Leaf("alice", 1, e.index), p) = e.merkle_root }

\* C16 (as amended): Proof correctness.  With a collision-free hash, a
\* proof that leads from the leaf to the published root folds to exactly
\* that root and the claim is accepted; a proof obtained from it by changing
\* one sibling, by truncating it, or by a reordering that changes more than
\* the order of steps with an absent sibling (whose orientation flag is
\* ignored), folds to another value and the claim fails with
\* InvalidMerkleProof.
C16_ProofCorrectness ==
    \A e \in epochs : \A p \in ValidPaths(e) :
        LET tampered == SiblingChanged(p, e.index) \cup Truncated(p) \cup
                        {q \in Reordered(p) : Oriented(q) # Oriented(p)}
        IN  /\ ProofAccepted("alice", e, 1, p)
            /\ \A q \in tampered : ~ProofAccepted("alice", e, 1, q)
            /\ <<e.index, "alice">> \notin claimRecords =>
                  /\ claim_rewardsErr("alice", e.index, 1, p) = "Ok"
                  /\ \A q \in tampered :
                        claim_rewardsErr("alice", e.index, 1, q)
                            = "InvalidMerkleProof"

\* C16 as stated: every reordering of a valid proof, like every change of
\* one sibling and every truncation, folds to a value different from the
\* root.
C16_AsStated ==
    \A e \in epochs : \A p \in ValidPaths(e) :
        /\ ProofAccepted("alice", e, 1, p)
        /\ \A q \in SiblingChanged(p, e.index) \cup Truncated(p)
                      \cup Reordered(p) :
              ~ProofAccepted("alice", e, 1, q)

\* C16 witness: the published root lies two steps above alice's leaf, one
\* step with bob's leaf as left sibling and one without sibling, and a
\* claim of alice has just failed verification.
C16_Witness ==
    /\ last.op = "claim_rewards" /\ last.signer = "alice"
    /\ last.err = "InvalidMerkleProof"
    /\ \E e \in epochs :
          e.merkle_root =
              Fold(Leaf("alice", 1, 1),
                   << [sibling |-> Leaf("bob", 2, 1), is_left |-> TRUE],
                      [sibling |-> Zero32, is_left |-> FALSE] >>)

C19_AuditRecord ==
    [][ last'.op = "update_config" =>
            IF last'.err = "Ok"
            THEN /\ config'.unbonding_period = last'.new_period
                 /\ last'.new_period >= 1 /\ last'.new_period <= 31536000
                 /\ config' = [config EXCEPT
                                  !.unbonding_period = last'.new_period]
                 /\ last'.old_period = config.unbonding_period
            ELSE /\ config' = config
                 /\ last'.old_period = 0 /\ last'.new_period = 0 ]_vars

\* C20: Unbond preconditions and ticket content.  A call unbond(amount) that
\* reaches the handler (the configuration exists and the caller has no
\* ticket) fails with InvalidAmount when amount = 0, with ProtocolPaused when
\* the protocol is paused, with InsufficientUnbondingBalance when amount
\* exceeds the caller's stake balance, and succeeds otherwise.  A successful
\* unbond adds exactly one ticket, with owner = caller, requested_amount =
\* amount, start_balance = the caller's stake balance at the call and
\* start_ts = the time of the call; a failing unbond adds none.  Every live
\* ticket satisfies 0 < requested_amount <= start_balance.
C20_UnbondTicket ==
    /\ [](\A t \in tickets :
             /\ 0 < t.requested_amount
             /\ t.requested_amount <= t.start_balance
             /\ t.owner = t.addr)
    /\ [](\A u \in Users, a \in AmountArgs :
             (ConfigLoadErr = "Ok" /\ TicketInitErr(u) = "Ok") =>
                 unbondErr(u, a) =
                     IF a = 0 THEN "InvalidAmount"
                     ELSE IF config.paused THEN "ProtocolPaused"
                     ELSE IF a > stakeBal[u]
                     THEN "InsufficientUnbondingBalance"
                     ELSE "Ok")
    /\ [][ last'.op = "unbond" =>
             IF last'.err = "Ok"
             THEN /\ last'.amount > 0
                  /\ ~config.paused
                  /\ last'.amount <= stakeBal[last'.signer]
                  /\ \E t \in tickets' \ tickets :
                        /\ tickets' = tickets \cup {t}
                        /\ t.owner = last'.signer
                        /\ t.requested_amount = last'.amount
                        /\ t.start_balance = stakeBal[last'.signer]
                        /\ t.start_ts = now
             ELSE tickets' = tickets ]_vars

\* C20 witness: a ticket was just created at a time after the start, for
\* less than the caller's whole balance, and its fields show the caller, the
\* amount, the balance and the time.
C20_Witness ==
    /\ last.op = "unbond" /\ last.err = "Ok" /\ now > 0
    /\ \E t \in tickets :
          /\ t.owner = last.signer
          /\ t.requested_amount = last.amount
          /\ t.requested_amount < t.start_balance
          /\ t.start_balance = stakeBal[t.owner]
          /\ t.start_ts = now

Matured(t) == now - t.start_ts >= config.unbonding_period

\* C22 (as amended): Redeem balance failures.  While the protocol is not
\* paused, a redeem by the owner of a ticket whose time-lock has elapsed
\* fails with InsufficientUnbondingBalance when min(requested_amount, the
\* owner's stake balance) is 0, and with InsufficientVaultBalance when that
\* minimum is positive and the vault holds less; while the protocol is
\* paused the same redeem fails with ProtocolPaused.  A redeem that fails
\* with either balance error burns and transfers nothing and leaves the
\* ticket live, and the vault balance is never negative.
C22_RedeemBalanceFailures ==
    /\ [](vaultBal >= 0)
    /\ [](\A u \in Users : \A t \in TicketsOf(u) :
             Matured(t) =>
                 LET m == Min(t.requested_amount, stakeBal[u])
                 IN  /\ config.paused => redeemErr(u, u) = "ProtocolPaused"
                     /\ (~config.paused /\ m = 0) =>
                            redeemErr(u, u) = "InsufficientUnbondingBalance"
                     /\ (~config.paused /\ m > 0 /\ vaultBal < m) =>
                            redeemErr(u, u) = "InsufficientVaultBalance")
    /\ [][ (/\ last'.op = "redeem"
            /\ last'.err \in {"InsufficientUnbondingBalance",
                              "InsufficientVaultBalance"}) =>
              /\ UNCHANGED <<stakeBal, stakeSupply, refBal, vaultBal, tickets>>
              /\ TicketsOf(last'.signer) # {}
              /\ ~config.paused ]_vars

\* C22 as stated: the two balance errors are returned whenever the time-lock
\* has elapsed, whether or not the protocol is paused.
C22_AsStated ==
    \A u \in Users : \A t \in TicketsOf(u) :
        Matured(t) =>
            LET m == Min(t.requested_amount, stakeBal[u])
            IN  /\ m = 0 => redeemErr(u, u) = "InsufficientUnbondingBalance"
                /\ (m > 0 /\ vaultBal < m) =>
                       redeemErr(u, u) = "InsufficientVaultBalance"

\* C22 witness: alice's matured ticket asks for more than the vault holds
\* (part of her stake came from a reward claim) and her redeem has just been
\* refused with InsufficientVaultBalance.
C22_Witness ==
    /\ last.op = "redeem" /\ last.err = "InsufficientVaultBalance"
    /\ \E t \in TicketsOf(last.signer) :
          /\ Matured(t)
          /\ vaultBal < Min(t.requested_amount, stakeBal[last.signer])
          /\ vaultBal > 0

\* C23: pause(flag) stores the flag.  A successful pause(flag) leaves
\* config.paused equal to flag, whatever it was before (pause(true) on a
\* paused protocol leaves it paused), and changes no other field of the
\* configuration, no ticket, epoch, claim record or balance; a failing pause
\* changes nothing; right after a successful initialize the protocol is not
\* paused.
C23_PauseSetsFlag ==
    /\ []((last.op = "initialize" /\ last.err = "Ok") => ~config.paused)
    /\ [][ last'.op = "pause" =>
              \A s \in Keys, f \in BOOLEAN :
                  pause(s, f) =>
                      /\ last'.err = "Ok" =>
                            /\ config'.paused = f
                            /\ config' = [config EXCEPT !.paused = f]
                      /\ last'.err # "Ok" => config' = config
                      /\ UNCHANGED <<tickets, epochs, claimRecords, refBal,
                                     vaultBal, stakeBal, stakeSupply, frozen,
                                     vaultOwner, programData>> ]_vars

\* C23 witness: the protocol is paused by a successful pause while a ticket,
\* an epoch, a claim record and balances exist.
C23_Witness ==
    /\ last.op = "pause" /\ last.err = "Ok" /\ config.paused
    /\ tickets # {} /\ epochs # {} /\ claimRecords # {}
    /\ vaultBal > 0 /\ stakeSupply > vaultBal

\* what a list update by signer s with list l must do to the two lists:
\* `mine` is the list the instruction replaces, `other` the one it leaves
ListReplaced(s, l, mine, mineAfter, other, otherAfter) ==
    /\ last'.err = "Ok" =>
          /\ mineAfter = l
          /\ \A k \in Keys : Member(mineAfter, k) <=> Member(l, k)
          /\ Len(l) <= 5
          /\ otherAfter = other
    /\ (config.initialized /\ s = programData /\ Len(l) > 5) =>
          last'.err = "TooManyAdministrators"
    /\ last'.err # "Ok" => config' = config

\* C24: Administrator-list updates are full replacements.  After a
\* successful update_freeze_administrators(list) the freeze list equals list
\* (a previous member is in it only if it is in list) and the rewards list
\* is unchanged, and symmetrically for update_rewards_administrators; such a
\* call by the upgrade authority with more than 5 members fails with
\* TooManyAdministrators, and a failing call leaves both lists unchanged.
C24_FullReplacement ==
    /\ [][ last'.op = "update_freeze_administrators" =>
              \A s \in Keys, l \in AdminListArgs :
                  update_freeze_administrators(s, l) =>
                      ListReplaced(s, l,
                          config.freeze_administrators,
                          config'.freeze_administrators,
                          config.rewards_administrators,
                          config'.rewards_administrators) ]_vars
    /\ [][ last'.op = "update_rewards_administrators" =>
              \A s \in Keys, l \in AdminListArgs :
                  update_rewards_administrators(s, l) =>
                      ListReplaced(s, l,
                          config.rewards_administrators,
                          config'.rewards_administrators,
                          config.freeze_administrators,
                          config'.freeze_administrators) ]_vars

\* C24 witness: a successful freeze-list update has left the freeze list
\* empty while the rewards list still has its member.
C24_Witness ==
    /\ last.op = "update_freeze_administrators" /\ last.err = "Ok"
    /\ config.freeze_administrators = <<>>
    /\ config.rewards_administrators = <<"alice">>

\* C25: Zero-sibling folding.  For every leaf and every proof, the value the
\* fold reaches after a step is H(node) alone when the step's sibling is all
\* zero, whatever the step's orientation flag, and otherwise
\* H(sibling || node) when the flag says the sibling is on the left and
\* H(node || sibling) when it does not, node being the value reached before
\* the step; the empty proof is accepted exactly when the leaf is the
\* published root, and then the claim succeeds.
C25_ZeroSiblingFolding ==
    \A e \in epochs : \A u \in Users, a \in 1..MaxAmount :
        LET leaf == Leaf(u, a, e.index)
        IN  /\ ProofAccepted(u, e, a, <<>>) <=> (leaf = e.merkle_root)
            /\ <<e.index, u>> \notin claimRecords =>
                  ((claim_rewardsErr(u, e.index, a, <<>>) = "Ok")
                        <=> (leaf = e.merkle_root))
            /\ \A p \in PathArgs(e.index) \ {<<>>} :
                  LET step == p[Len(p)]
                      node == Fold(leaf, SubSeq(p, 1, Len(p) - 1))
                      flipped == [p EXCEPT ![Len(p)].is_left = ~step.is_left]
                  IN  /\ step.sibling = Zero32 =>
                            /\ Fold(leaf, p) = hashv(<< <<node>> >>)
                            /\ Fold(leaf, flipped) = Fold(leaf, p)
                      /\ (step.sibling # Zero32 /\ step.is_left) =>
                            Fold(leaf, p) =
                                hashv(<< <<step.sibling>>, <<node>> >>)
                      /\ (step.sibling # Zero32 /\ ~step.is_left) =>
                            Fold(leaf, p) =
                                hashv(<< <<node>>, <<step.sibling>> >>)
                      /\ (step.sibling # Zero32 /\ step.sibling # node) =>
                            Fold(leaf, flipped) # Fold(leaf, p)

\* C25 witness: the published root is H(leaf) of alice's leaf, one step with
\* an absent sibling above it, and alice's claim has just been accepted.
C25_Witness ==
    /\ last.op = "claim_rewards" /\ last.signer = "alice" /\ last.err = "Ok"
    /\ \E e \in epochs :
          e.merkle_root = hashv(<< <<Leaf("alice", 1, e.index)>> >>)

\* the leaves of the tree whose root is h: a leaf is the hash of a key and
\* two 8-byte integers, an inner node the hash of one or two nodes
RECURSIVE LeavesUnder(_)
LeavesUnder(h) ==
    IF h.tag # "sha256" THEN {}
    ELSE IF Len(h.kids) = 17 THEN {h}
    ELSE UNION { LeavesUnder(h.kids[i]) : i \in 1..Len(h.kids) }

\* C26 (as amended): Claim binding.  With a collision-free hash, a
\* claim_rewards call succeeds only if the leaf of (signer, amount, epoch
\* index) is committed under the root of that epoch.  A proof accepted for
\* claimant u with amount a in an epoch is accepted in that epoch for no other
\* signer and no other amount, and it is accepted in another epoch only for a
\* leaf that is committed under that other epoch's root.
C26_ClaimBinding ==
    /\ [](\A e \in epochs : \A u \in Users, a \in AmountArgs :
             \A pr \in AnyProofArgs :
                /\ claim_rewardsErr(u, e.index, a, pr) = "Ok" =>
                      Leaf(u, a, e.index) \in LeavesUnder(e.merkle_root)
                /\ ProofAccepted(u, e, a, pr) =>
                      /\ Leaf(u, a, e.index) \in LeavesUnder(e.merkle_root)
                      /\ \A v \in Users, b \in AmountArgs :
                            <<v, b>> # <<u, a>> => ~ProofAccepted(v, e, b, pr))
    /\ [][ (last'.op = "claim_rewards" /\ last'.err = "Ok") =>
              \E k \in claimRecords' \ claimRecords :
                  /\ k[2] = last'.signer
                  /\ \E e \in EpochAt(k[1]) :
                        Leaf(last'.signer, last'.amount, k[1])
                            \in LeavesUnder(e.merkle_root) ]_vars

\* C26 as stated: a proof accepted for (u, a) in one epoch is accepted for
\* nobody else, for no other amount and in no other epoch.
C26_AsStated ==
    \A e \in epochs : \A u \in Users, a \in AmountArgs :
        \A pr \in AnyProofArgs :
            ProofAccepted(u, e, a, pr) =>
                /\ \A v \in Users, b \in AmountArgs :
                      <<v, b>> # <<u, a>> => ~ProofAccepted(v, e, b, pr)
                /\ \A e2 \in epochs :
                      e2.index # e.index => ~ProofAccepted(u, e2, a, pr)

\* C26 witness: bob has just tried alice's proof of the pair tree in the
\* epoch it was published for, with her amount, and was refused.
C26_Witness ==
    /\ last.op = "claim_rewards" /\ last.signer = "bob"
    /\ last.err = "InvalidMerkleProof"
    /\ \E e \in epochs :
          /\ e.merkle_root = PairRoot(e.index)
          /\ ProofAccepted("alice", e, 1, ProofLeft(e.index))
          /\ ~ProofAccepted("bob", e, 1, ProofLeft(e.index))
          /\ <<e.index, "alice">> \in claimRecords
          /\ <<e.index, "bob">> \notin claimRecords

\* the reward amounts successfully claimed so far, by every holder in every
\* epoch
ClaimedTotal ==
    MintedByClaims("alice", EpochArgs) + MintedByClaims("bob", EpochArgs)

C28_MaturityFollowsPeriod ==
    /\ [](\A u \in Users : \A t \in TicketsOf(u) :
             /\ DOMAIN t = {"addr", "owner", "requested_amount",
                            "start_balance", "start_ts"}
             /\ ~config.paused =>
                   ((redeemErr(u, u) = "UnbondingPeriodNotElapsed")
                        <=> (now - t.start_ts < config.unbonding_period)))
    /\ [][ (last'.op = "update_config" /\ last'.err = "Ok") =>
              \A u \in Users : \A t \in TicketsOf(u) :
                  /\ t \in tickets'
                  /\ (/\ redeemErr(u, u) = "UnbondingPeriodNotElapsed"
                      /\ now - t.start_ts >= config'.unbonding_period) =>
                         redeemErr(u, u)' # "UnbondingPeriodNotElapsed"
                  /\ (/\ redeemErr(u, u) = "Ok"
                      /\ now - t.start_ts < config'.unbonding_period) =>
                         redeemErr(u, u)' = "UnbondingPeriodNotElapsed" ]_vars

\* C28 witness: the period has just been set to 2 while alice holds a ticket
\* of age 1, old enough for the period 1 the protocol started with, and her
\* redeem would now be refused for its age.
C28_Witness ==
    /\ last.op = "update_config" /\ last.err = "Ok"
    /\ config.unbonding_period = 2
    /\ \E t \in TicketsOf("alice") :
          /\ now - t.start_ts = 1
          /\ stakeBal["alice"] >= t.requested_amount
          /\ redeemErr("alice", "alice") = "UnbondingPeriodNotElapsed"

\* the amounts minted by the successful claims against epoch `index`
ClaimedInEpoch(index) ==
    LET minted(u) == IF Claimed(index, u) = <<>> THEN 0
                     ELSE Claimed(index, u)[1]
    IN  minted("alice") + minted("bob")

\* C29: Epoch total bounds claims.  For every reward epoch, the amounts
\* minted by the successful claim_rewards calls against it add up to at most
\* the total recorded in the epoch.
C29_TotalBoundsClaims ==
    \A e \in epochs : ClaimedInEpoch(e.index) <= e.total

\* owner u holds a live ticket and no stake tokens
Stuck(u) == TicketsOf(u) # {} /\ stakeBal[u] = 0

\* C30: Stuck ticket.  A ticket disappears only in a successful redeem.  An
\* owner with a live ticket and a stake balance of 0 cannot redeem (once the
\* time-lock has elapsed and the protocol is running the refusal is
\* InsufficientUnbondingBalance; before that the call is refused for the
\* time-lock or the pause) and cannot unbond again (the ticket account
\* exists), whatever the amount; so the ticket stays, unchanged, in every
\* step taken while the balance is 0.
C30_StuckTicket ==
    /\ [](\A u \in Users : Stuck(u) =>
             /\ redeemErr(u, u) # "Ok"
             /\ \A t \in TicketsOf(u) :
                   (~config.paused /\ Matured(t)) =>
                       redeemErr(u, u) = "InsufficientUnbondingBalance"
             /\ \A a \in AmountArgs :
                   unbondErr(u, a) = "AccountAlreadyInUse")
    /\ [][ \A u \in Users : Stuck(u) => TicketsOf(u)' = TicketsOf(u) ]_vars
    /\ [][ (\E t \in tickets : t \notin tickets') =>
              (last'.op = "redeem" /\ last'.err = "Ok") ]_vars

\* C30 witness: alice gave her stake tokens away after unbonding; her
\* matured ticket is live and her redeem has just been refused with
\* InsufficientUnbondingBalance.
C30_Witness ==
    /\ last.op = "redeem" /\ last.signer = "alice"
    /\ last.err = "InsufficientUnbondingBalance"
    /\ Stuck("alice")
    /\ \E t \in TicketsOf("alice") : Matured(t)
    /\ unbondErr("alice", 1) = "AccountAlreadyInUse"

\* C31: Renounced authority freezes the configuration.  Once the program
\* data records no upgrade authority, none is ever recorded again and no
\* step changes the configuration account: the pause flag, the unbonding
\* period and both administrator lists keep their values (and a protocol not
\* yet initialized stays so), every root-gated call failing with
\* NoUpgradeAuthority once it passes account validation.  In particular a
\* protocol that is paused then stays paused, and no deposit, unbond, redeem
\* or claim_rewards succeeds from then on.
C31_RenouncedFreezesConfig ==
    /\ []((programData = None /\ config.paused) =>
             /\ \A a \in AmountArgs :
                   /\ depositErr("alice", a) # "Ok"
                   /\ unbondErr("alice", a) # "Ok"
                   /\ claim_rewardsErr("alice", 1, a, ProofLeft(1)) # "Ok"
             /\ redeemErr("alice", "alice") # "Ok")
    /\ [][ programData = None =>
              /\ programData' = None
              /\ config' = config
              /\ last'.op \in RootGated =>
                    last'.err \in {"NoUpgradeAuthority", "AccountAlreadyInUse",
                                   "AccountNotInitialized"}
              /\ config.paused =>
                    /\ config'.paused
                    /\ ~(last'.op \in UserGated /\ last'.err = "Ok")
                    /\ UNCHANGED <<refBal, vaultBal, stakeBal, stakeSupply,
                                   tickets, claimRecords>> ]_vars

\* C31 witness: the authority was renounced while the protocol was paused
\* and alice held a matured ticket; root's pause(false) has just been
\* refused with NoUpgradeAuthority and alice's redeem is refused for the
\* pause.
C31_Witness ==
    /\ programData = None /\ config.paused
    /\ last.op = "pause" /\ last.signer = "root"
    /\ last.err = "NoUpgradeAuthority"
    /\ \E t \in TicketsOf("alice") : Matured(t)
    /\ stakeBal["alice"] > 0
    /\ redeemErr("alice", "alice") = "ProtocolPaused"

====
